---------------------------- MODULE Spec2Model ----------------------------
(***************************************************************************)
(* The producer side of the graphics buffer handoff: Surface               *)
(* (frameworks/native/libs/gui/Surface.cpp) talking to the buffer queue    *)
(* behind IGraphicBufferProducer, with the consumer latching queued        *)
(* buffers; the lock of a canvas in android_view_Surface.cpp; and the      *)
(* scene states and main loop of the compositor declared in                *)
(* SurfaceFlinger.h.  Regions are sets of pixels <<x, y>>; a Rect is the   *)
(* record                                                                  *)
(* [left, top, right, bottom] and covers the pixels left <= x < right,     *)
(* top <= y < bottom.                                                      *)
(***************************************************************************)
EXTENDS Integers, Sequences, FiniteSets, TLC

\* ------------------------------------------------------------------ bounds
\* Number of slots of the slot table (32 in the build; kept small here).
NUM_BUFFER_SLOTS == 2
\* Largest buffer width and height, in pixels.
MaxDim == 2
\* Pixel formats are 1..MaxFormat; 0 means "not set".
MaxFormat == 2
\* The number of calls on the Surface followed from the initial state.
MaxOps == 4
\* The same, where longer histories of lock and unlockAndPost are followed.
MaxLongOps == 6
\* the number of calls followed where the configuration requests vary
MaxConfigOps == 3
\* the number of calls followed where the Surface is queried
MaxQueryOps == 5
\* The width of int and of size_t in bits (32 in the build; kept small here).
IntBits == 4
\* The number of iterations of the compositor's main loop followed.
MaxFrames == 2
\* The last user-activity event type (2 in the build; kept small here).
USER_ACTIVITY_EVENT_LAST == 1

\* --------------------------------------------------------------- constants
\* Throttling interval for user activity calls, in nanoseconds (500 ms).
MIN_TIME_BETWEEN_USERACTIVITIES == 500000000
\* Stands for the least nsecs_t: earlier, by more than the throttling
\* interval, than every event time followed.
LLONG_MIN == -2000000000
NATIVE_WINDOW_API_EGL == 1
NATIVE_WINDOW_API_CPU == 2
\* Stands for INT64_MIN: the one timestamp value that means "make one up".
NATIVE_WINDOW_TIMESTAMP_AUTO == -1
NATIVE_WINDOW_SCALING_MODE_FREEZE == 0
NATIVE_WINDOW_SCALING_MODE_SCALE_TO_WINDOW == 1
NATIVE_WINDOW_SCALING_MODE_SCALE_CROP == 2
\* GRALLOC_USAGE_SW_READ_OFTEN | GRALLOC_USAGE_SW_WRITE_OFTEN = 0x3 | 0x30
GRALLOC_USAGE_SW_RW == 51
\* the value of NATIVE_WINDOW_CONCRETE_TYPE for a Surface
NATIVE_WINDOW_SURFACE == 1

\* The bits of mTransactionFlags
eTransactionNeeded == 1
eTraversalNeeded == 2
eDisplayTransactionNeeded == 4
eTransactionMask == 7

NO_ERROR == "NO_ERROR"
INVALID_OPERATION == "INVALID_OPERATION"
BAD_VALUE == "BAD_VALUE"
NAME_NOT_FOUND == "NAME_NOT_FOUND"
NO_MEMORY == "NO_MEMORY"
NO_INIT == "NO_INIT"
\* -errno of the failed sync_wait behind Fence::waitForever
FENCE_WAIT_ERROR == "FENCE_WAIT_ERROR"

Slots == 0 .. (NUM_BUFFER_SLOTS - 1)
\* Every GraphicBuffer that can be alive at once: one per queue slot, one per
\* stale pointer the application still holds, mLockedBuffer and mPostedBuffer.
Handles == 1 .. (2 * NUM_BUFFER_SLOTS + 2)
Pixels == (0 .. (MaxDim - 1)) \X (0 .. (MaxDim - 1))
Colors == {1, 2}

\* -------------------------------------------------------------- Rect/Region
MkRect(l, t, r, b) == [left |-> l, top |-> t, right |-> r, bottom |-> b]

\* Rect(w, h): the rectangle (0, 0, w, h)
RectWH(w, h) == MkRect(0, 0, w, h)

EmptyRect == MkRect(0, 0, 0, 0)

RectIsEmpty(r) == r.left >= r.right \/ r.top >= r.bottom

RectPixels(r) ==
    {p \in Pixels : r.left <= p[1] /\ p[1] < r.right /\ r.top <= p[2] /\ p[2] < r.bottom}

Min(S) == CHOOSE x \in S : \A y \in S : x <= y

Max(S) == CHOOSE x \in S : \A y \in S : x >= y

\* Region::getBounds / Region::bounds: the smallest Rect holding the region
RegionBounds(reg) ==
    IF reg = {} THEN EmptyRect
    ELSE MkRect(Min({p[1] : p \in reg}), Min({p[2] : p \in reg}),
                Max({p[1] : p \in reg}) + 1, Max({p[2] : p \in reg}) + 1)

\* Region::subtract is const: it returns the difference and leaves both
\* operands alone (the mutating form is subtractSelf).
RegionSubtract(lhs, rhs) == lhs \ rhs

\* Rect::intersect(with, &result): TRUE and the intersection, or FALSE and an
\* empty result
RectIntersect(a, b) ==
    LET r == MkRect(IF a.left > b.left THEN a.left ELSE b.left,
                    IF a.top > b.top THEN a.top ELSE b.top,
                    IF a.right < b.right THEN a.right ELSE b.right,
                    IF a.bottom < b.bottom THEN a.bottom ELSE b.bottom)
    IN IF RectIsEmpty(r) THEN EmptyRect ELSE r

\* ------------------------------------------------------------ GraphicBuffer
\* sp<GraphicBuffer>: the null pointer is the buffer with handle 0.
NoBuffer == [handle |-> 0, width |-> 0, height |-> 0, stride |-> 0, format |-> 0]

MkBuffer(h, w, ht, f) ==
    [handle |-> h, width |-> w, height |-> ht, stride |-> w, format |-> f]

BufferBounds(b) == RectWH(b.width, b.height)

\* ------------------------------------------- calls made on the buffer queue
NoCall ==
    [fn |-> "none", slot |-> -1, api |-> 0, w |-> 0, h |-> 0, format |-> 0,
     usage |-> 0, timestamp |-> 0, isAutoTimestamp |-> FALSE, crop |-> EmptyRect,
     fence |-> "NO_FENCE", count |-> 0,
     releaseAll |-> FALSE, needsRealloc |-> FALSE]

\* ------------------------------------------------------------- buffer queue
\* The queue behind IGraphicBufferProducer and its consumer.  q is the record
\* [slots, fifo, connectedApi, defaultWidth, defaultHeight, transformHint].
BQInit ==
    [slots |-> [i \in Slots |-> [state |-> "FREE", buffer |-> NoBuffer]],
     fifo |-> <<>>,
     connectedApi |-> 0,
     defaultWidth |-> 1,
     defaultHeight |-> 1,
     transformHint |-> 0]

BQOutput(q) ==
    [width |-> q.defaultWidth, height |-> q.defaultHeight,
     transformHint |-> q.transformHint, numPendingBuffers |-> Len(q.fifo)]

BQFreeAll(q) ==
    [q EXCEPT !.slots = [i \in Slots |-> [state |-> "FREE", buffer |-> NoBuffer]],
              !.fifo = <<>>]

BQConnect(q, api) ==
    IF q.connectedApi # 0
    THEN [q |-> q, err |-> BAD_VALUE, output |-> BQOutput(q)]
    ELSE [q |-> [q EXCEPT !.connectedApi = api], err |-> NO_ERROR, output |-> BQOutput(q)]

BQDisconnect(q, api) ==
    IF q.connectedApi = api
    THEN [q |-> [BQFreeAll(q) EXCEPT !.connectedApi = 0], err |-> NO_ERROR]
    ELSE [q |-> q, err |-> BAD_VALUE]

BQSetBufferCount(q, n) ==
    IF n < 0 \/ n > NUM_BUFFER_SLOTS THEN [q |-> q, err |-> BAD_VALUE]
    ELSE IF \E i \in Slots : q.slots[i].state = "DEQUEUED"
    THEN [q |-> q, err |-> BAD_VALUE]
    ELSE [q |-> BQFreeAll(q), err |-> NO_ERROR]

\* e.pick: the free slot handed out, or -1 when the queue has none to give
\* (the allocator failed, the queue was abandoned): then e.err is returned.
\* e.releaseAll: the queue dropped all its buffers first.
\* fresh: the handle of a GraphicBuffer allocated by this call.
BQCanDequeue(q, e) ==
    \/ e.pick = -1
    \/ /\ e.pick \in Slots
       /\ e.releaseAll \/ q.slots[e.pick].state = "FREE"

BQDequeueBuffer(q, e, fresh, w, h, format) ==
    IF e.pick = -1
    THEN [q |-> q, err |-> e.err, slot |-> -1, releaseAll |-> FALSE, needsRealloc |-> FALSE]
    ELSE
      LET q1 == IF e.releaseAll THEN BQFreeAll(q) ELSE q
          ww == IF w = 0 THEN q1.defaultWidth ELSE w
          hh == IF h = 0 THEN q1.defaultHeight ELSE h
          ff == IF format = 0 THEN 1 ELSE format
          old == q1.slots[e.pick].buffer
          realloc == old = NoBuffer \/ old.width # ww \/ old.height # hh \/ old.format # ff
          buf == IF realloc THEN MkBuffer(fresh, ww, hh, ff) ELSE old
      IN [q |-> [q1 EXCEPT !.slots[e.pick] = [state |-> "DEQUEUED", buffer |-> buf]],
          err |-> NO_ERROR, slot |-> e.pick,
          releaseAll |-> e.releaseAll, needsRealloc |-> realloc]

BQRequestBuffer(q, slot) == q.slots[slot].buffer

BQCancelBuffer(q, slot) ==
    IF q.slots[slot].state = "DEQUEUED"
    THEN [q EXCEPT !.slots[slot].state = "FREE"]
    ELSE q

\* On an error the reply is never filled in.
BQQueueBuffer(q, slot) ==
    IF q.slots[slot].state # "DEQUEUED"
    THEN [q |-> q, err |-> BAD_VALUE, filled |-> FALSE, output |-> BQOutput(q)]
    ELSE LET q1 == [q EXCEPT !.slots[slot].state = "QUEUED", !.fifo = Append(@, slot)]
         IN [q |-> q1, err |-> NO_ERROR, filled |-> TRUE, output |-> BQOutput(q1)]

\* The consumer latches the oldest queued buffer and gives back the one it
\* was showing.
BQLatch(q) ==
    LET s == Head(q.fifo)
    IN [q EXCEPT !.fifo = Tail(@),
                 !.slots = [i \in Slots |->
                               IF i = s THEN [@[i] EXCEPT !.state = "ACQUIRED"]
                               ELSE IF @[i].state = "ACQUIRED" THEN [@[i] EXCEPT !.state = "FREE"]
                               ELSE @[i]]]

\* A present that hands nothing back
BQReleaseNone(q) == q

\* The consumer hands back, with a release fence, the buffers of the frame
\* it has presented: their slots are free for the producer again.
BQRelease(q) ==
    [q EXCEPT !.slots = [i \in Slots |->
                            IF @[i].state = "ACQUIRED" THEN [@[i] EXCEPT !.state = "FREE"]
                            ELSE @[i]]]

\* The queue's answer to a query.  failed: the queue was abandoned or the
\* call did not get through; then nothing is written to *value.
BQQuery(q, what, failed) ==
    IF failed THEN [err |-> NO_INIT, written |-> FALSE, value |-> 0]
    ELSE CASE what = "NATIVE_WINDOW_CONSUMER_RUNNING_BEHIND" ->
                 [err |-> NO_ERROR, written |-> TRUE,
                  value |-> IF Len(q.fifo) >= 2 THEN 1 ELSE 0]
           [] what = "NATIVE_WINDOW_FORMAT" ->
                 [err |-> NO_ERROR, written |-> TRUE, value |-> 1]
           [] what = "NATIVE_WINDOW_WIDTH" ->
                 [err |-> NO_ERROR, written |-> TRUE, value |-> q.defaultWidth]
           [] what = "NATIVE_WINDOW_HEIGHT" ->
                 [err |-> NO_ERROR, written |-> TRUE, value |-> q.defaultHeight]
           [] OTHER -> [err |-> BAD_VALUE, written |-> FALSE, value |-> 0]

\* ------------------------------------------------------------------ Surface
\* The fields of a Surface after its constructor has run.
SurfaceInit ==
    [mReqWidth |-> 0, mReqHeight |-> 0, mReqFormat |-> 0, mReqUsage |-> 0,
     mTimestamp |-> NATIVE_WINDOW_TIMESTAMP_AUTO,
     mCrop |-> EmptyRect,
     mScalingMode |-> NATIVE_WINDOW_SCALING_MODE_FREEZE,
     mTransform |-> 0,
     mDefaultWidth |-> 0, mDefaultHeight |-> 0,
     mUserWidth |-> 0, mUserHeight |-> 0,
     mTransformHint |-> 0,
     mConsumerRunningBehind |-> FALSE,
     mConnectedToCpu |-> FALSE,
     mSwapIntervalZero |-> FALSE,
     mSlots |-> [i \in Slots |-> [buffer |-> NoBuffer, dirtyRegion |-> {}]],
     mLockedBuffer |-> NoBuffer,
     mPostedBuffer |-> NoBuffer,
     mDirtyRegion |-> {}]

\* A world w is [s, q, log, heap, held]: the Surface, the buffer queue, the
\* calls made on the queue so far in the running operation, the pixel memory
\* of every buffer handle, and the buffers the application got from
\* dequeueBuffer and has not given back.
LiveHandles(w) ==
    ({w.q.slots[i].buffer.handle : i \in Slots}
        \cup {w.s.mSlots[i].buffer.handle : i \in Slots}
        \cup {w.s.mLockedBuffer.handle, w.s.mPostedBuffer.handle}
        \cup {b.handle : b \in w.held}) \ {0}

FreshHandle(w) == Min(Handles \ LiveHandles(w))

\* Surface::freeAllBuffers
FreeAllBuffers(s) ==
    [s EXCEPT !.mSlots = [i \in Slots |-> [buffer |-> NoBuffer,
                                           dirtyRegion |-> s.mSlots[i].dirtyRegion]]]

\* Surface::getSlotFromBufferLocked: the first slot whose cached buffer has
\* the handle of `buffer`, or -1 (BAD_VALUE)
SlotsHolding(s, buffer) ==
    {i \in Slots : s.mSlots[i].buffer # NoBuffer
                   /\ s.mSlots[i].buffer.handle = buffer.handle}

GetSlotFromBufferLocked(s, buffer) ==
    IF SlotsHolding(s, buffer) = {} THEN -1 ELSE Min(SlotsHolding(s, buffer))

\* QueueBufferOutput::deflate into mDefaultWidth, mDefaultHeight,
\* mTransformHint, then mConsumerRunningBehind = (numPendingBuffers >= 2)
Deflate(s, output) ==
    [s EXCEPT !.mDefaultWidth = output.width,
              !.mDefaultHeight = output.height,
              !.mTransformHint = output.transformHint,
              !.mConsumerRunningBehind = (output.numPendingBuffers >= 2)]

\* Surface::connect, once the queue has answered r
ConnectReply(w, api, r) ==
    [w |-> [w EXCEPT
              !.q = r.q,
              !.log = Append(@, [NoCall EXCEPT !.fn = "connect", !.api = api]),
              !.s = IF r.err = NO_ERROR
                    THEN [Deflate(@, r.output) EXCEPT
                            !.mConnectedToCpu =
                                IF api = NATIVE_WINDOW_API_CPU THEN TRUE ELSE @]
                    ELSE @],
     ret |-> r.err]

\* Surface::connect
Connect(w, api) == ConnectReply(w, api, BQConnect(w.q, api))

\* The fields disconnect puts back after the queue accepted it
\* A disconnect that forgets the crop, the scaling mode and the transform
ResetOnDisconnectSizeOnly(s, api) ==
    [s EXCEPT !.mReqFormat = 0, !.mReqWidth = 0, !.mReqHeight = 0,
              !.mReqUsage = 0,
              !.mConnectedToCpu = IF api = NATIVE_WINDOW_API_CPU THEN FALSE ELSE @]

ResetOnDisconnect(s, api) ==
    [s EXCEPT !.mReqFormat = 0, !.mReqWidth = 0, !.mReqHeight = 0,
              !.mReqUsage = 0, !.mCrop = EmptyRect,
              !.mScalingMode = NATIVE_WINDOW_SCALING_MODE_FREEZE,
              !.mTransform = 0,
              !.mConnectedToCpu = IF api = NATIVE_WINDOW_API_CPU THEN FALSE ELSE @]

\* A disconnect that resets the configuration whatever the queue answered
DisconnectReplyAlwaysResets(w, api, r) ==
    [w |-> [w EXCEPT
              !.q = r.q,
              !.log = Append(@, [NoCall EXCEPT !.fn = "disconnect", !.api = api]),
              !.s = ResetOnDisconnect(FreeAllBuffers(@), api)],
     ret |-> r.err]

\* Surface::disconnect, once the queue has answered r
DisconnectReply(w, api, r) ==
    [w |-> [w EXCEPT
              !.q = r.q,
              !.log = Append(@, [NoCall EXCEPT !.fn = "disconnect", !.api = api]),
              !.s = IF r.err = NO_ERROR
                    THEN ResetOnDisconnect(FreeAllBuffers(@), api)
                    ELSE FreeAllBuffers(@)],
     ret |-> r.err]

\* Surface::disconnect
Disconnect(w, api) == DisconnectReply(w, api, BQDisconnect(w.q, api))

\* Surface::setUsage
SetUsage(w, reqUsage) == [w |-> [w EXCEPT !.s.mReqUsage = reqUsage], ret |-> NO_ERROR]

\* A setBufferCount that keeps the cached buffers whatever the queue answers
SetBufferCountReplyKeeps(w, bufferCount, r) ==
    [w |-> [w EXCEPT
              !.q = r.q,
              !.log = Append(@, [NoCall EXCEPT !.fn = "setBufferCount",
                                               !.count = bufferCount])],
     ret |-> r.err]

\* Surface::setBufferCount, once the queue has answered r
SetBufferCountReply(w, bufferCount, r) ==
    [w |-> [w EXCEPT
              !.q = r.q,
              !.log = Append(@, [NoCall EXCEPT !.fn = "setBufferCount",
                                               !.count = bufferCount]),
              !.s = IF r.err = NO_ERROR THEN FreeAllBuffers(@) ELSE @],
     ret |-> r.err]

\* Surface::setBufferCount
SetBufferCount(w, bufferCount) ==
    SetBufferCountReply(w, bufferCount, BQSetBufferCount(w.q, bufferCount))

\* Surface::setCrop.  hasRect: rect is not NULL
SetCrop(w, hasRect, rect) ==
    [w |-> [w EXCEPT !.s.mCrop = IF ~hasRect \/ RectIsEmpty(rect) THEN EmptyRect ELSE rect],
     ret |-> NO_ERROR]

\* A setBuffersDimensions without its tests
SetBuffersDimensionsUnchecked(w, wd, ht) ==
    [w |-> [w EXCEPT !.s.mReqWidth = wd, !.s.mReqHeight = ht], ret |-> NO_ERROR]

\* Surface::setBuffersDimensions
SetBuffersDimensions(w, wd, ht) ==
    IF wd < 0 \/ ht < 0 THEN [w |-> w, ret |-> BAD_VALUE]
    ELSE IF (wd # 0 /\ ht = 0) \/ (wd = 0 /\ ht # 0) THEN [w |-> w, ret |-> BAD_VALUE]
    ELSE [w |-> [w EXCEPT !.s.mReqWidth = wd, !.s.mReqHeight = ht], ret |-> NO_ERROR]

\* Surface::setBuffersUserDimensions
SetBuffersUserDimensions(w, wd, ht) ==
    IF wd < 0 \/ ht < 0 THEN [w |-> w, ret |-> BAD_VALUE]
    ELSE IF (wd # 0 /\ ht = 0) \/ (wd = 0 /\ ht # 0) THEN [w |-> w, ret |-> BAD_VALUE]
    ELSE [w |-> [w EXCEPT !.s.mUserWidth = wd, !.s.mUserHeight = ht], ret |-> NO_ERROR]

\* Surface::setBuffersFormat
SetBuffersFormat(w, format) ==
    IF format < 0 THEN [w |-> w, ret |-> BAD_VALUE]
    ELSE [w |-> [w EXCEPT !.s.mReqFormat = format], ret |-> NO_ERROR]

\* Surface::setScalingMode
SetScalingMode(w, mode) ==
    IF mode \in {NATIVE_WINDOW_SCALING_MODE_FREEZE,
                 NATIVE_WINDOW_SCALING_MODE_SCALE_TO_WINDOW,
                 NATIVE_WINDOW_SCALING_MODE_SCALE_CROP}
    THEN [w |-> [w EXCEPT !.s.mScalingMode = mode], ret |-> NO_ERROR]
    ELSE [w |-> w, ret |-> BAD_VALUE]

\* Surface::setBuffersTransform
SetBuffersTransform(w, transform) ==
    [w |-> [w EXCEPT !.s.mTransform = transform], ret |-> NO_ERROR]

\* Surface::setBuffersTimestamp
SetBuffersTimestamp(w, timestamp) ==
    [w |-> [w EXCEPT !.s.mTimestamp = timestamp], ret |-> NO_ERROR]

\* A reqW that does not look at the user-override width
ReqWRequestedOnly(s) == s.mReqWidth

\* reqW and reqH of Surface::dequeueBuffer
ReqW(s) == IF s.mReqWidth # 0 THEN s.mReqWidth ELSE s.mUserWidth

ReqH(s) == IF s.mReqHeight # 0 THEN s.mReqHeight ELSE s.mUserHeight

DequeueCall(s, slot) ==
    [NoCall EXCEPT !.fn = "dequeueBuffer", !.w = ReqW(s), !.h = ReqH(s),
                   !.format = s.mReqFormat, !.usage = s.mReqUsage, !.slot = slot]

\* A dequeueBuffer that keeps its cached buffers on RELEASE_ALL_BUFFERS
DequeueFetchKeepsAll(w, buf, releaseAll, request) ==
    [w EXCEPT
       !.s = IF request
             THEN [@ EXCEPT !.mSlots[buf].buffer = BQRequestBuffer(w.q, buf)]
             ELSE @,
       !.log = IF request
               THEN Append(@, [NoCall EXCEPT !.fn = "requestBuffer", !.slot = buf])
               ELSE @]

\* Surface::dequeueBuffer after the queue returned slot `buf`: the cached
\* buffers are dropped on RELEASE_ALL_BUFFERS, and the slot's buffer is
\* fetched with requestBuffer when the queue asks for it or none is cached.
DequeueFetch(w, buf, releaseAll, request) ==
    [w EXCEPT
       !.s = IF request
             THEN [(IF releaseAll THEN FreeAllBuffers(@) ELSE @)
                      EXCEPT !.mSlots[buf].buffer = BQRequestBuffer(w.q, buf)]
             ELSE @,
       !.log = IF request
               THEN Append(@, [NoCall EXCEPT !.fn = "requestBuffer", !.slot = buf])
               ELSE @]

\* What Surface::dequeueBuffer hands back: the buffer cached for the slot
DequeueResult(w, slot, fence) ==
    [w |-> w, ret |-> NO_ERROR, buffer |-> w.s.mSlots[slot].buffer,
     slot |-> slot, fence |-> fence]

\* Surface::dequeueBuffer, once the queue has answered r
DequeueReply(w, e, fresh, r) ==
    IF r.err # NO_ERROR
    THEN [w |-> [w EXCEPT !.log = Append(@, DequeueCall(w.s, -1))],
          ret |-> r.err, buffer |-> NoBuffer, slot |-> -1, fence |-> "none"]
    ELSE DequeueResult(
             DequeueFetch(
                 [w EXCEPT !.q = r.q,
                           !.log = Append(@, [DequeueCall(w.s, r.slot) EXCEPT
                                                !.releaseAll = r.releaseAll,
                                                !.needsRealloc = r.needsRealloc]),
                           !.heap = IF r.needsRealloc
                                    THEN [@ EXCEPT ![fresh] = [p \in Pixels |-> e.garbage]]
                                    ELSE @],
                 r.slot, r.releaseAll,
                 r.needsRealloc \/ r.releaseAll \/ w.s.mSlots[r.slot].buffer = NoBuffer),
             r.slot, e.fence)

\* Surface::dequeueBuffer.  e holds what the queue and the allocator decide:
\* pick, err, releaseAll (see BQDequeueBuffer), fence ("none", "err": no
\* fence, a fence whose wait fails) and garbage, the colour a newly allocated
\* buffer happens to hold.
DequeueBuffer(w, e) ==
    DequeueReply(w, e, FreshHandle(w),
                 BQDequeueBuffer(w.q, e, FreshHandle(w), ReqW(w.s), ReqH(w.s),
                                 w.s.mReqFormat))

\* A cancelBuffer that never reaches the queue
CancelBufferForgets(w, buffer) == [w |-> w, ret |-> NO_ERROR]

\* Surface::cancelBuffer
CancelBuffer(w, buffer) ==
    IF GetSlotFromBufferLocked(w.s, buffer) < 0 THEN [w |-> w, ret |-> BAD_VALUE]
    ELSE [w |-> [w EXCEPT
                   !.q = BQCancelBuffer(@, GetSlotFromBufferLocked(w.s, buffer)),
                   !.log = Append(@, [NoCall EXCEPT
                                        !.fn = "cancelBuffer",
                                        !.slot = GetSlotFromBufferLocked(w.s, buffer)])],
          ret |-> NO_ERROR]

\* A queueBuffer that always makes its timestamp up
IsAutoTimestampAlways(mTimestamp) == TRUE

\* The timestamp policy of Surface::queueBuffer: TRUE when the timestamp is
\* made up from the clock.
IsAutoTimestamp(mTimestamp) == mTimestamp = NATIVE_WINDOW_TIMESTAMP_AUTO

\* A QueueBufferInput that carries the crop as configured
QueueCallRawCrop(s, buffer, fenceFd, i, now) ==
    [NoCall EXCEPT
       !.fn = "queueBuffer", !.slot = i,
       !.timestamp = IF IsAutoTimestamp(s.mTimestamp) THEN now ELSE s.mTimestamp,
       !.isAutoTimestamp = IsAutoTimestamp(s.mTimestamp),
       !.crop = s.mCrop,
       !.fence = IF fenceFd >= 0 THEN "fence" ELSE "NO_FENCE"]

\* The QueueBufferInput of Surface::queueBuffer for slot i
QueueCall(s, buffer, fenceFd, i, now) ==
    [NoCall EXCEPT
       !.fn = "queueBuffer", !.slot = i,
       !.timestamp = IF IsAutoTimestamp(s.mTimestamp) THEN now ELSE s.mTimestamp,
       !.isAutoTimestamp = IsAutoTimestamp(s.mTimestamp),
       !.crop = RectIntersect(s.mCrop, RectWH(buffer.width, buffer.height)),
       !.fence = IF fenceFd >= 0 THEN "fence" ELSE "NO_FENCE"]

\* Surface::queueBuffer, once the queue has answered r.  junk is what the
\* never-initialised QueueBufferOutput holds when the queue fills nothing in.
QueueReply(w, call, r, junk) ==
    [w |-> [w EXCEPT !.q = r.q,
                     !.log = Append(@, call),
                     !.s = Deflate(@, IF r.filled THEN r.output ELSE junk)],
     ret |-> r.err]

\* A queueBuffer that inflates its output before it looks the buffer up
QueueBufferDeflatesUnknown(w, buffer, fenceFd, e) ==
    IF GetSlotFromBufferLocked(w.s, buffer) < 0
    THEN [w |-> [w EXCEPT !.s = Deflate(@, e.junk)], ret |-> BAD_VALUE]
    ELSE QueueReply(w,
                    QueueCall(w.s, buffer, fenceFd,
                              GetSlotFromBufferLocked(w.s, buffer), e.now),
                    BQQueueBuffer(w.q, GetSlotFromBufferLocked(w.s, buffer)),
                    e.junk)

\* Surface::queueBuffer.  e.now is the monotonic clock.
QueueBuffer(w, buffer, fenceFd, e) ==
    IF GetSlotFromBufferLocked(w.s, buffer) < 0 THEN [w |-> w, ret |-> BAD_VALUE]
    ELSE QueueReply(w,
                    QueueCall(w.s, buffer, fenceFd,
                              GetSlotFromBufferLocked(w.s, buffer), e.now),
                    BQQueueBuffer(w.q, GetSlotFromBufferLocked(w.s, buffer)),
                    e.junk)

\* copyBlt: copy the pixels of reg from src to dst.  bltErr: gralloc failed
\* to map src or dst (src_bits or dst_bits stays NULL), and nothing is copied.
CopyBlt(heap, dst, src, reg, bltErr) ==
    IF bltErr THEN heap
    ELSE [heap EXCEPT ![dst.handle] = [p \in Pixels |->
                                          IF p \in reg THEN heap[src.handle][p]
                                          ELSE heap[dst.handle][p]]]

\* ------------------------------------------------------ lock / unlockAndPost
\* A lock that never notices an outstanding lock
AlreadyLockedNever(s) == FALSE

\* The "already locked" test that opens Surface::lock
AlreadyLocked(s) == s.mLockedBuffer # NoBuffer

\* The caller's dirty rectangle clipped to the buffer, or the whole buffer
\* when the caller gave none
NewDirtyRegion(hasRect, rect, bounds) ==
    IF hasRect THEN RectPixels(rect) \cap RectPixels(bounds) ELSE RectPixels(bounds)

\* canCopyBack: there is a front buffer of the same width, height and format
CanCopyBack(backBuffer, frontBuffer) ==
    /\ frontBuffer # NoBuffer
    /\ backBuffer.width = frontBuffer.width
    /\ backBuffer.height = frontBuffer.height
    /\ backBuffer.format = frontBuffer.format

\* A copy-back of the whole accumulated dirty region
CopybackAll(mDirtyRegion, newDirtyRegion) == mDirtyRegion

\* copyback: the area that is invalid and not repainted this round
Copyback(mDirtyRegion, newDirtyRegion) == RegionSubtract(mDirtyRegion, newDirtyRegion)

\* A bookkeeping that takes the slot's previous region out of mDirtyRegion
SubtractSlotDirtySelf(mDirtyRegion, dirtyRegion) ==
    RegionSubtract(mDirtyRegion, dirtyRegion)

\* The statement "mDirtyRegion.subtract(dirtyRegion);": the difference is
\* computed and dropped, mDirtyRegion keeps its value.
SubtractSlotDirty(mDirtyRegion, dirtyRegion) ==
    LET dropped == RegionSubtract(mDirtyRegion, dirtyRegion)
    IN mDirtyRegion

\* The per-slot bookkeeping of Surface::lock for the back buffer found in
\* backBufferSlot (-1: in no slot), and the orSelf that follows it
UpdateDirtyInSlot(s, backBufferSlot, newDirtyRegion) ==
    IF backBufferSlot >= 0
    THEN [s EXCEPT !.mDirtyRegion =
                       SubtractSlotDirty(@, s.mSlots[backBufferSlot].dirtyRegion)
                           \cup newDirtyRegion,
                   !.mSlots[backBufferSlot].dirtyRegion = newDirtyRegion]
    ELSE [s EXCEPT !.mDirtyRegion = @ \cup newDirtyRegion]

UpdateDirty(s, backBuffer, newDirtyRegion) ==
    UpdateDirtyInSlot(s, GetSlotFromBufferLocked(s, backBuffer), newDirtyRegion)

\* A lock that keeps the dirty history when nothing can be copied back
ForceFullRedrawKeeping(s) == s

\* The branch of Surface::lock taken when nothing can be copied back
ForceFullRedraw(s) ==
    [s EXCEPT !.mDirtyRegion = {},
              !.mSlots = [i \in Slots |-> [buffer |-> s.mSlots[i].buffer,
                                           dirtyRegion |-> {}]]]

\* What a call of lock reports besides its status: the slot and buffer it
\* dequeued, whether the fence wait succeeded, canCopyBack, the region handed
\* to copyBlt (blitted: copyBlt was called), the dirty region, the rectangle
\* left in *inOutDirtyBounds, whether the buffer was mapped, and outBuffer.
NoLockOut(rect) ==
    [slot |-> -1, back |-> NoBuffer, waited |-> FALSE, canCopyBack |-> FALSE,
     copyback |-> {}, blitted |-> FALSE, newDirty |-> {}, dirtyOut |-> rect,
     mapped |-> FALSE, outBuffer |-> NoBuffer]

\* A lock that records the back buffer as locked whether or not it was mapped
LockMapAlwaysLocks(w, slot, backBuffer, canCopyBack, copyback, newDirtyRegion, hasRect, rect, mapErr) ==
    [w |-> [w EXCEPT !.s.mLockedBuffer = backBuffer],
     ret |-> IF mapErr THEN INVALID_OPERATION ELSE NO_ERROR,
     out |-> [slot |-> slot, back |-> backBuffer, waited |-> TRUE,
              canCopyBack |-> canCopyBack,
              copyback |-> IF canCopyBack THEN copyback ELSE {},
              blitted |-> canCopyBack /\ copyback # {},
              newDirty |-> newDirtyRegion,
              dirtyOut |-> IF hasRect THEN RegionBounds(newDirtyRegion) ELSE rect,
              mapped |-> ~mapErr,
              outBuffer |-> IF mapErr THEN NoBuffer ELSE backBuffer]]

\* Surface::lock from the mapping of the back buffer on: mapErr is gralloc
\* failing to map it.
LockMap(w, slot, backBuffer, canCopyBack, copyback, newDirtyRegion, hasRect, rect, mapErr) ==
    [w |-> IF mapErr THEN w ELSE [w EXCEPT !.s.mLockedBuffer = backBuffer],
     ret |-> IF mapErr THEN INVALID_OPERATION ELSE NO_ERROR,
     out |-> [slot |-> slot, back |-> backBuffer, waited |-> TRUE,
              canCopyBack |-> canCopyBack,
              copyback |-> IF canCopyBack THEN copyback ELSE {},
              blitted |-> canCopyBack /\ copyback # {},
              newDirty |-> newDirtyRegion,
              dirtyOut |-> IF hasRect THEN RegionBounds(newDirtyRegion) ELSE rect,
              mapped |-> ~mapErr,
              outBuffer |-> IF mapErr THEN NoBuffer ELSE backBuffer]]

\* Surface::lock from the copy-back decision to the dirty bookkeeping.
\* clipped is the caller's dirty region within the buffer.  The status of
\* copyBlt is not looked at.
LockRegions(w, slot, backBuffer, clipped, canCopyBack, copyback, hasRect, rect, e) ==
    LockMap(
        [w EXCEPT
           !.s = IF canCopyBack
                 THEN UpdateDirty(@, backBuffer, clipped)
                 ELSE UpdateDirty(ForceFullRedraw(@), backBuffer,
                                  RectPixels(BufferBounds(backBuffer))),
           !.heap = IF canCopyBack /\ copyback # {}
                    THEN CopyBlt(@, backBuffer, w.s.mPostedBuffer, copyback, e.bltErr)
                    ELSE @],
        slot, backBuffer, canCopyBack, copyback,
        IF canCopyBack THEN clipped ELSE RectPixels(BufferBounds(backBuffer)),
        hasRect, rect, e.mapErr)

\* A lock that gives up on a failed fence wait without cancelling
LockFenceFailedKeeps(d, rect) ==
    [w |-> d.w, ret |-> FENCE_WAIT_ERROR,
     out |-> [NoLockOut(rect) EXCEPT !.slot = d.slot, !.back = d.buffer]]

\* Surface::lock when the wait on the fence of the dequeued buffer failed
LockFenceFailed(d, rect) ==
    [w |-> CancelBuffer(d.w, d.buffer).w, ret |-> FENCE_WAIT_ERROR,
     out |-> [NoLockOut(rect) EXCEPT !.slot = d.slot, !.back = d.buffer]]

\* A lock that goes to work on the back buffer without looking at the wait
LockDequeuedNoWait(d, hasRect, rect, e) ==
    IF d.ret # NO_ERROR
    THEN [w |-> d.w, ret |-> d.ret, out |-> NoLockOut(rect)]
    ELSE LockRegions(d.w, d.slot, d.buffer,
                     NewDirtyRegion(hasRect, rect, BufferBounds(d.buffer)),
                     CanCopyBack(d.buffer, d.w.s.mPostedBuffer),
                     Copyback(d.w.s.mDirtyRegion,
                              NewDirtyRegion(hasRect, rect, BufferBounds(d.buffer))),
                     hasRect, rect, e)

\* Surface::lock once dequeueBuffer has returned d: the fence wait, then the
\* work on the back buffer
LockDequeued(d, hasRect, rect, e) ==
    IF d.ret # NO_ERROR
    THEN [w |-> d.w, ret |-> d.ret, out |-> NoLockOut(rect)]
    ELSE IF d.fence = "err"
    THEN LockFenceFailed(d, rect)
    ELSE LockRegions(d.w, d.slot, d.buffer,
                     NewDirtyRegion(hasRect, rect, BufferBounds(d.buffer)),
                     CanCopyBack(d.buffer, d.w.s.mPostedBuffer),
                     Copyback(d.w.s.mDirtyRegion,
                              NewDirtyRegion(hasRect, rect, BufferBounds(d.buffer))),
                     hasRect, rect, e)

\* A lock that goes on whatever its connect returned
LockConnectedAnyway(c, hasRect, rect, e) ==
    LockDequeued(DequeueBuffer(SetUsage(c.w, GRALLOC_USAGE_SW_RW).w, e),
                 hasRect, rect, e)

\* Surface::lock once its connect(NATIVE_WINDOW_API_CPU) has returned c
LockConnected(c, hasRect, rect, e) ==
    IF c.ret # NO_ERROR
    THEN [w |-> c.w, ret |-> c.ret, out |-> NoLockOut(rect)]
    ELSE LockDequeued(DequeueBuffer(SetUsage(c.w, GRALLOC_USAGE_SW_RW).w, e),
                      hasRect, rect, e)

\* Surface::lock.  hasRect: inOutDirtyBounds is not NULL, and then rect is
\* what it points to.  e: see DequeueBuffer; e.mapErr: gralloc fails to map
\* the back buffer; e.bltErr: gralloc fails to map a buffer inside copyBlt.
Lock(w, hasRect, rect, e) ==
    IF AlreadyLocked(w.s)
    THEN [w |-> w, ret |-> INVALID_OPERATION, out |-> NoLockOut(rect)]
    ELSE IF ~w.s.mConnectedToCpu
    THEN LockConnected(Connect(w, NATIVE_WINDOW_API_CPU), hasRect, rect, e)
    ELSE LockDequeued(DequeueBuffer(w, e), hasRect, rect, e)

\* Surface::lock after its opening test of mLockedBuffer, which is made
\* without mMutex: what a thread that found mLockedBuffer null goes on to
\* do, whatever mLockedBuffer has become since.
LockEntered(w, hasRect, rect, e) ==
    IF ~w.s.mConnectedToCpu
    THEN LockConnected(Connect(w, NATIVE_WINDOW_API_CPU), hasRect, rect, e)
    ELSE LockDequeued(DequeueBuffer(w, e), hasRect, rect, e)

\* The buffer unlockAndPost records as mPostedBuffer
PostedBuffer(mLockedBuffer, err) == mLockedBuffer

\* An unlockAndPost that leaves mLockedBuffer in place
UnlockAndPostKeepsLock(mLockedBuffer, r) ==
    [w |-> [r.w EXCEPT !.s.mPostedBuffer = mLockedBuffer], ret |-> r.ret]

\* Surface::unlockAndPost once its queueBuffer has returned r
UnlockAndPostQueued(mLockedBuffer, r) ==
    [w |-> [r.w EXCEPT !.s.mPostedBuffer = PostedBuffer(mLockedBuffer, r.ret),
                       !.s.mLockedBuffer = NoBuffer],
     ret |-> r.ret]

\* An unlockAndPost without its opening test
UnlockAndPostUnguarded(w, e) ==
    UnlockAndPostQueued(w.s.mLockedBuffer, QueueBuffer(w, w.s.mLockedBuffer, -1, e))

\* Surface::unlockAndPost
UnlockAndPost(w, e) ==
    IF w.s.mLockedBuffer = NoBuffer
    THEN [w |-> w, ret |-> INVALID_OPERATION]
    ELSE UnlockAndPostQueued(w.s.mLockedBuffer,
                             QueueBuffer(w, w.s.mLockedBuffer, -1, e))

\* size_t and int have IntBits bits.  IntToSize: the size_t a caller makes
\* of an int; SizeToInt: the int the size_t becomes when it is passed to
\* setBufferCount(int).
IntToSize(n) == n % (2 ^ IntBits)

SizeToInt(u) == ((u + 2 ^ (IntBits - 1)) % (2 ^ IntBits)) - 2 ^ (IntBits - 1)

\* Surface::dispatchSetBufferCount: args[1] is read as a size_t
DispatchSetBufferCount(w, args) == SetBufferCount(w, SizeToInt(args[1]))

\* A dispatchSetBuffersGeometry that sets the format before the dimensions
DispatchSetBuffersGeometryFormatFirst(w, args) ==
    IF SetBuffersFormat(w, args[3]).ret # NO_ERROR
    THEN SetBuffersFormat(w, args[3])
    ELSE SetBuffersDimensions(SetBuffersFormat(w, args[3]).w, args[1], args[2])

\* Surface::dispatchSetBuffersGeometry, once setBuffersDimensions returned r
DispatchSetBuffersGeometryFormat(r, f) ==
    IF r.ret # NO_ERROR THEN r ELSE SetBuffersFormat(r.w, f)

\* Surface::dispatchSetBuffersGeometry
DispatchSetBuffersGeometry(w, args) ==
    DispatchSetBuffersGeometryFormat(SetBuffersDimensions(w, args[1], args[2]), args[3])

\* Surface::perform: operation is the name of the operation code, args the
\* variadic arguments in order (a rectangle pointer is two arguments:
\* whether it is not NULL, and the rectangle), e what the queue, the fences,
\* the allocator and the clock decide during a lock or an unlockAndPost.
Perform(w, operation, args, e) ==
    CASE operation = "NATIVE_WINDOW_CONNECT" -> [w |-> w, ret |-> NO_ERROR]
      [] operation = "NATIVE_WINDOW_DISCONNECT" -> [w |-> w, ret |-> NO_ERROR]
      [] operation = "NATIVE_WINDOW_SET_USAGE" -> SetUsage(w, args[1])
      [] operation = "NATIVE_WINDOW_SET_CROP" -> SetCrop(w, args[1], args[2])
      [] operation = "NATIVE_WINDOW_SET_BUFFER_COUNT" -> DispatchSetBufferCount(w, args)
      [] operation = "NATIVE_WINDOW_SET_BUFFERS_GEOMETRY" ->
            DispatchSetBuffersGeometry(w, args)
      [] operation = "NATIVE_WINDOW_SET_BUFFERS_TRANSFORM" ->
            SetBuffersTransform(w, args[1])
      [] operation = "NATIVE_WINDOW_SET_BUFFERS_TIMESTAMP" ->
            SetBuffersTimestamp(w, args[1])
      [] operation = "NATIVE_WINDOW_SET_BUFFERS_DIMENSIONS" ->
            SetBuffersDimensions(w, args[1], args[2])
      [] operation = "NATIVE_WINDOW_SET_BUFFERS_USER_DIMENSIONS" ->
            SetBuffersUserDimensions(w, args[1], args[2])
      [] operation = "NATIVE_WINDOW_SET_BUFFERS_FORMAT" -> SetBuffersFormat(w, args[1])
      [] operation = "NATIVE_WINDOW_LOCK" -> Lock(w, args[1], args[2], e)
      [] operation = "NATIVE_WINDOW_UNLOCK_AND_POST" -> UnlockAndPost(w, e)
      [] operation = "NATIVE_WINDOW_SET_SCALING_MODE" -> SetScalingMode(w, args[1])
      [] operation = "NATIVE_WINDOW_API_CONNECT" -> Connect(w, args[1])
      [] operation = "NATIVE_WINDOW_API_DISCONNECT" -> Disconnect(w, args[1])
      [] OTHER -> [w |-> w, ret |-> NAME_NOT_FOUND]

\* mUserWidth ? mUserWidth : mDefaultWidth
DefaultDimension(user, default) == IF user # 0 THEN user ELSE default

\* mGraphicBufferProducer->query(what, value)
QueryProducer(w, what, e) ==
    [w |-> [w EXCEPT !.log = Append(@, [NoCall EXCEPT !.fn = "query"])],
     ret |-> BQQuery(w.q, what, e.failed).err,
     value |-> IF BQQuery(w.q, what, e.failed).written
               THEN BQQuery(w.q, what, e.failed).value ELSE e.before]

RunningBehindReplyKeeps(r) == r

\* case NATIVE_WINDOW_CONSUMER_RUNNING_BEHIND with the flag set, r being the
\* queue's answer: mConsumerRunningBehind = *value when it answered
RunningBehindReply(r) ==
    IF r.ret = NO_ERROR
    THEN [r EXCEPT !.w.s.mConsumerRunningBehind = (r.value # 0)]
    ELSE r

\* Surface::query.  e.authentic: the composer recognises the producer;
\* e.failed: a query passed on to the queue fails; e.before: what *value
\* held before the call.  The result is [w, ret, value].
Query(w, what, e) ==
    CASE what = "NATIVE_WINDOW_FORMAT" /\ w.s.mReqFormat # 0 ->
            [w |-> w, ret |-> NO_ERROR, value |-> w.s.mReqFormat]
      [] what = "NATIVE_WINDOW_QUEUES_TO_WINDOW_COMPOSER" ->
            [w |-> w, ret |-> NO_ERROR, value |-> IF e.authentic THEN 1 ELSE 0]
      [] what = "NATIVE_WINDOW_CONCRETE_TYPE" ->
            [w |-> w, ret |-> NO_ERROR, value |-> NATIVE_WINDOW_SURFACE]
      [] what = "NATIVE_WINDOW_DEFAULT_WIDTH" ->
            [w |-> w, ret |-> NO_ERROR,
             value |-> DefaultDimension(w.s.mUserWidth, w.s.mDefaultWidth)]
      [] what = "NATIVE_WINDOW_DEFAULT_HEIGHT" ->
            [w |-> w, ret |-> NO_ERROR,
             value |-> DefaultDimension(w.s.mUserHeight, w.s.mDefaultHeight)]
      [] what = "NATIVE_WINDOW_TRANSFORM_HINT" ->
            [w |-> w, ret |-> NO_ERROR, value |-> w.s.mTransformHint]
      [] what = "NATIVE_WINDOW_CONSUMER_RUNNING_BEHIND" ->
            IF ~w.s.mConsumerRunningBehind
            THEN [w |-> w, ret |-> NO_ERROR, value |-> 0]
            ELSE RunningBehindReply(QueryProducer(w, what, e))
      [] OTHER -> QueryProducer(w, what, e)

\* ------------------------------------------------ android_view_Surface.cpp
OutOfResourcesException == "android/view/Surface$OutOfResourcesException"

IllegalArgumentException == "java/lang/IllegalArgumentException"

NoException == "none"

\* A nativeLockCanvas that throws the same exception for every failure
LockExceptionAlwaysIAE(err) == IllegalArgumentException

\* (err == NO_MEMORY) ? OutOfResourcesException : "java/lang/IllegalArgumentException"
LockException(err) ==
    IF err = NO_MEMORY THEN OutOfResourcesException ELSE IllegalArgumentException

\* nativeLockCanvas once surface->lock has returned r.  j is the managed
\* side: j.canvas the buffer the Canvas object draws into (NoBuffer: none),
\* j.refs the strong references taken on the Surface for locked canvases.
\* The result adds the exception thrown and the jint returned (1 stands for
\* the address of the Surface).
NativeLockCanvasLocked(r, j) ==
    IF r.ret # NO_ERROR
    THEN [w |-> r.w, ret |-> r.ret, out |-> r.out, j |-> j,
          exception |-> LockException(r.ret), value |-> 0]
    ELSE [w |-> r.w, ret |-> r.ret, out |-> r.out,
          j |-> [canvas |-> r.out.outBuffer, refs |-> j.refs + 1],
          exception |-> NoException, value |-> 1]

\* nativeLockCanvas.  valid: isSurfaceValid(surface)
NativeLockCanvas(w, j, valid, hasRect, rect, e) ==
    IF ~valid
    THEN [w |-> w, ret |-> NO_ERROR, out |-> NoLockOut(rect), j |-> j,
          exception |-> IllegalArgumentException, value |-> 0]
    ELSE NativeLockCanvasLocked(Lock(w, hasRect, rect, e), j)

\* nativeUnlockCanvasAndPost: the canvas is detached, then unlockAndPost
NativeUnlockCanvasAndPostPosted(r, j) ==
    [w |-> r.w, ret |-> r.ret, j |-> [j EXCEPT !.canvas = NoBuffer],
     exception |-> IF r.ret # NO_ERROR THEN IllegalArgumentException ELSE NoException]

NativeUnlockCanvasAndPost(w, j, valid, e) ==
    IF ~valid
    THEN [w |-> w, ret |-> NO_ERROR, j |-> j, exception |-> NoException]
    ELSE NativeUnlockCanvasAndPostPosted(UnlockAndPost(w, e), j)

\* ----------------------------------------------------------- SurfaceFlinger
\* The compositor: its two scene states, the pending transaction flags, and
\* the main loop that commits transactions, latches queued buffers,
\* composites and presents.  One display, as large as the largest buffer.
\* struct State
State(layers, displays) == [layersSortedByZ |-> layers, displays |-> displays]

\* The two complete scenes a client moves between: a transaction changes
\* both the layer list and the display configuration.
Scenes == {State(<<1>>, 0), State(<<1, 2>>, 1)}

OtherScene(s) == CHOOSE x \in Scenes : x # s

FlagBits == {eTransactionNeeded, eTraversalNeeded, eDisplayTransactionNeeded}

HasBit(word, b) == (word \div b) % 2 = 1

\* word | flags
BitOr(word, flags) ==
    (IF HasBit(word, eTransactionNeeded) \/ HasBit(flags, eTransactionNeeded)
     THEN eTransactionNeeded ELSE 0)
    + (IF HasBit(word, eTraversalNeeded) \/ HasBit(flags, eTraversalNeeded)
       THEN eTraversalNeeded ELSE 0)
    + (IF HasBit(word, eDisplayTransactionNeeded) \/ HasBit(flags, eDisplayTransactionNeeded)
       THEN eDisplayTransactionNeeded ELSE 0)

\* A setTransactionFlags that stores the flags given
SetTransactionFlagsOverwrites(word, flags) == flags

\* SurfaceFlinger::setTransactionFlags: the new value of mTransactionFlags
SetTransactionFlags(word, flags) == BitOr(word, flags)

\* A state lock that anyone may pass
StateLockIgnored(lock) == TRUE

\* mStateLock can be taken
StateLockFree(lock) == lock = "none"

\* A main loop that composites only when a buffer was latched
NeedsCompositionLatchedOnly(committed, latched) == latched

\* Whether the iteration has anything to draw
NeedsComposition(committed, latched) == committed \/ latched

\* f is the compositor.  mCurrentState, mDrawingState, mTransactionFlags and
\* mStateLock ("none" or "client") are its members.  request: how far the
\* client request holding the lock has got (0: none in progress).  pc: the
\* handler the main loop runs next.  committed, latched: what the running
\* iteration has done.  dirtyRegion: the damage of the display.  composed:
\* the state and the region of the last composition.  presents: frames
\* presented.  iterations: iterations of the main loop finished.
\* whole: mCurrentState as the last finished client request left it.
\* snapshot: whole, as it was at the last commitTransaction.
\* failing: the displays that were missing or whose composition failed in
\* the frame under way.  passes: the displays composited for the frame under
\* way.  presented: the displays the last present showed a frame on.
\* faults: whether displays may fail (see DisplayFaults).
FlingerInit ==
    [mCurrentState |-> State(<<1>>, 0),
     mDrawingState |-> State(<<1>>, 0),
     mTransactionFlags |-> 0,
     mStateLock |-> "none",
     request |-> 0,
     pc |-> "waitForEvent",
     committed |-> FALSE,
     latched |-> FALSE,
     dirtyRegion |-> {},
     composed |-> [state |-> State(<<1>>, 0), dirty |-> {}],
     presents |-> 0,
     iterations |-> 0,
     whole |-> State(<<1>>, 0),
     snapshot |-> State(<<1>>, 0),
     failing |-> {},
     passes |-> {},
     presented |-> {},
     faults |-> FALSE]

\* A client request, first half: the lock is taken, the layer list of
\* mCurrentState replaced (setClientStateLocked), eTransactionNeeded set.
RequestLayers(f) ==
    [f EXCEPT !.mStateLock = "client",
              !.request = 1,
              !.mCurrentState.layersSortedByZ = OtherScene(f.whole).layersSortedByZ,
              !.mTransactionFlags = SetTransactionFlags(@, eTransactionNeeded)]

\* Second half: the display configuration replaced (setDisplayStateLocked),
\* eDisplayTransactionNeeded set, the lock released.
RequestDisplays(f) ==
    [f EXCEPT !.mStateLock = "none",
              !.request = 0,
              !.mCurrentState.displays = OtherScene(f.whole).displays,
              !.mTransactionFlags = SetTransactionFlags(@, eDisplayTransactionNeeded),
              !.whole = State(f.mCurrentState.layersSortedByZ, OtherScene(f.whole).displays)]

\* A request that changes no state and asks for a traversal
RequestTraversal(f) ==
    [f EXCEPT !.mTransactionFlags = SetTransactionFlags(@, eTraversalNeeded)]

\* The pixels of the display
DisplayPixels == Pixels

\* SurfaceFlinger::commitTransaction: mDrawingState becomes mCurrentState,
\* the pending flags are cleared, the display is to be redrawn.
CommitTransaction(f) ==
    [f EXCEPT !.mDrawingState = f.mCurrentState,
              !.mTransactionFlags = 0,
              !.committed = TRUE,
              !.dirtyRegion = DisplayPixels,
              !.snapshot = f.whole]

\* SurfaceFlinger::handleMessageTransaction
HandleMessageTransaction(f) ==
    [(IF f.mTransactionFlags # 0 THEN CommitTransaction(f) ELSE f)
        EXCEPT !.pc = "handlePageFlip"]

\* What a latched buffer newly exposes.  queueBuffer hands the queue no
\* dirty region, so all of the buffer counts.
LayerDirty(q, slot) == RectPixels(BufferBounds(q.slots[slot].buffer))

\* SurfaceFlinger::handlePageFlip with a buffer queued: the buffer is
\* latched and what it exposes added to the damage of the display.
HandlePageFlipLatched(f, q) ==
    [f EXCEPT !.latched = TRUE,
              !.dirtyRegion = @ \cup LayerDirty(q, Head(q.fifo)),
              !.pc = "handleMessageRefresh"]

\* The displays of a state: the built-in one (0) and the external ones
DisplaysOf(state) == 0 .. state.displays

\* A composition that one failing display aborts for all
ComposedDisplaysAllOrNone(displays, failing) ==
    IF failing = {} THEN displays ELSE {}

\* SurfaceFlinger::doComposition: the displays that get their composition
\* pass (doDisplayComposition); a display that is missing or fails is passed
\* over.
ComposedDisplays(displays, failing) == displays \ failing

\* SurfaceFlinger::handleMessageRefresh: nothing to draw, or the damaged
\* region of the drawing state composited, display by display
HandleMessageRefresh(f, failing) ==
    IF ~NeedsComposition(f.committed, f.latched)
    THEN [f EXCEPT !.pc = "waitForEvent", !.iterations = @ + 1]
    ELSE [f EXCEPT !.composed = [state |-> f.mDrawingState, dirty |-> f.dirtyRegion],
                   !.dirtyRegion = {},
                   !.failing = failing,
                   !.passes = ComposedDisplays(DisplaysOf(f.mDrawingState), failing),
                   !.pc = "postFramebuffer"]

\* SurfaceFlinger::postFramebuffer: the frame is presented (its buffers go
\* back to their queue, see DoPostFramebuffer) and the iteration ends.
PostFramebuffer(f) ==
    [f EXCEPT !.presents = @ + 1,
              !.presented = f.passes,
              !.passes = {},
              !.failing = {},
              !.committed = FALSE,
              !.latched = FALSE,
              !.pc = "waitForEvent",
              !.iterations = @ + 1]

\* -------------------------------------------------- the power manager (JNI)
\* register_android_server_PowerManagerService: no event recorded for any
\* type, no service object yet.  clock is the monotonic clock; forwarded is
\* the log of the calls of userActivityFromNative.
PowerInit ==
    [gLastEventTime |-> [t \in 0 .. USER_ACTIVITY_EVENT_LAST |-> LLONG_MIN],
     gPowerManagerServiceObj |-> FALSE,
     clock |-> 0,
     forwarded |-> <<>>]

\* nativeInit: the service object is kept as a global reference
NativeInit(p) == [p EXCEPT !.gPowerManagerServiceObj = TRUE]

\* nanoseconds_to_milliseconds: integer division, truncating towards zero
NanosecondsToMilliseconds(t) ==
    IF t >= 0 THEN t \div 1000000 ELSE -((-t) \div 1000000)

\* 'if (eventTime > now) eventTime = now;'
ClampToNow(eventTime, now) == IF eventTime > now THEN now ELSE eventTime

\* A throttle that lets every event through
ThrottledNever(lastEventTime, eventTime) == FALSE

\* 'gLastEventTime[eventType] + MIN_TIME_BETWEEN_USERACTIVITIES > eventTime'
Throttled(lastEventTime, eventTime) ==
    lastEventTime + MIN_TIME_BETWEEN_USERACTIVITIES > eventTime

\* env->CallVoidMethod(..., userActivityFromNative, ...) with eventTime
UserActivityFromNative(p, eventTime, eventType) ==
    [p EXCEPT !.forwarded =
                 Append(@, [eventTime |-> eventTime,
                            millis |-> NanosecondsToMilliseconds(eventTime),
                            eventType |-> eventType])]

\* android_server_PowerManagerService_userActivity(eventTime, eventType),
\* with systemTime(SYSTEM_TIME_MONOTONIC) returning now.  (The hint to the
\* power HAL that precedes it keeps no state.)
UserActivity(p, eventTime, eventType, now) ==
    IF ~p.gPowerManagerServiceObj THEN p
    ELSE IF eventType >= 0 /\ eventType <= USER_ACTIVITY_EVENT_LAST
    THEN IF Throttled(p.gLastEventTime[eventType], ClampToNow(eventTime, now))
         THEN p
         ELSE UserActivityFromNative(
                  [p EXCEPT !.gLastEventTime[eventType] = ClampToNow(eventTime, now)],
                  ClampToNow(eventTime, now), eventType)
    ELSE UserActivityFromNative(p, eventTime, eventType)

\* -------------------------------------------------------------------- state
VARIABLES
    surface,    \* the fields of the Surface
    bq,         \* the buffer queue behind mGraphicBufferProducer
    heap,       \* heap[handle][pixel]: the pixel memory of each GraphicBuffer
    held,       \* buffers the application holds from dequeueBuffer
    painter,    \* the caller of lock: "off" (pixels not followed), "idle",
                \* "locked" (lock returned, nothing drawn yet), "drawn"
    frame,      \* the pixels of the frame handed to the last unlockAndPost
    last,       \* the last call: operation, arguments, status, outputs and
                \* the calls it made on the buffer queue
    hist,       \* what the calls so far amount to (see HistInit)
    flinger,    \* the compositor (see FlingerInit)
    power       \* the power manager's native half (see PowerInit)

vars == <<surface, bq, heap, held, painter, frame, last, hist, flinger, power>>

\* lockOutstanding: a lock() returned NO_ERROR and unlockAndPost() has not
\*   been called since.
\* queuedByPost: the buffer of the last unlockAndPost() whose queueBuffer
\*   succeeded.
\* lockBuffer: the buffer lock() last dequeued and went on to work with.
\* posted: whether a frame has been posted.
\* redraw: the rectangle the caller who paints was last told to redraw.
\* setFormat, setUsage: the format and the usage of the last request to set
\*   them that returned NO_ERROR (0 when there was none).
\* jni: the managed side of nativeLockCanvas (see NativeLockCanvasLocked).
\* threads: where each thread that calls lock() is (see ThreadOut).
\* ops: the number of calls made on the Surface; limit: how many are followed.
\* The threads that call lock() on the one Surface
Threads == {1, 2}

\* A thread outside lock().  pc: "out", "entered" (past the test of
\* mLockedBuffer) or "returned"; ret: what its lock() returned; crossed: an
\* unlockAndPost() ran while it was inside lock().
ThreadOut == [pc |-> "out", ret |-> "none", crossed |-> FALSE]

HistInit ==
    [lockOutstanding |-> FALSE, queuedByPost |-> NoBuffer, lockBuffer |-> NoBuffer,
     posted |-> FALSE, redraw |-> EmptyRect, setFormat |-> 0, setUsage |-> 0,
     jni |-> [canvas |-> NoBuffer, refs |-> 0],
     threads |-> [t \in Threads |-> ThreadOut],
     ops |-> 0, limit |-> MaxOps]

Budget == hist.ops < hist.limit

Tick(h) == [h EXCEPT !.ops = @ + 1]

\* The history after a configuration request returned ret
SetNoted(h, operation, args, ret) ==
    IF ret # NO_ERROR THEN h
    ELSE CASE operation = "NATIVE_WINDOW_SET_BUFFERS_FORMAT" ->
                 [h EXCEPT !.setFormat = args[1]]
           [] operation = "NATIVE_WINDOW_SET_BUFFERS_GEOMETRY" ->
                 [h EXCEPT !.setFormat = args[3]]
           [] operation = "NATIVE_WINDOW_SET_USAGE" ->
                 [h EXCEPT !.setUsage = args[1]]
           [] OTHER -> h

NoLast ==
    [op |-> "none", ret |-> NO_ERROR, calls |-> <<>>, api |-> 0, buffer |-> NoBuffer,
     hasRect |-> FALSE, rect |-> EmptyRect, now |-> 0, arg1 |-> 0, arg2 |-> 0,
     operation |-> "none", args |-> <<>>, value |-> 0, env |-> <<>>,
     exception |-> NoException,
     out |-> NoLockOut(EmptyRect)]

BlankHeap == [h \in Handles |-> [p \in Pixels |-> 0]]

World == [s |-> surface, q |-> bq, log |-> <<>>, heap |-> heap, held |-> held]

Commit(w) ==
    /\ surface' = w.s
    /\ bq' = w.q
    /\ heap' = w.heap
    /\ flinger' = flinger
    /\ power' = power

\* A call that returned r: the state it leaves and what is remembered of it
Returned(r, called) ==
    /\ Commit(r.w)
    /\ last' = [called EXCEPT !.ret = r.ret, !.calls = r.w.log]

\* ---------------------------------------------------------- the environment
Clock == {8}

ExplicitTimestamps == {1}

JunkOutputs ==
    {[width |-> MaxDim, height |-> MaxDim, transformHint |-> 1, numPendingBuffers |-> 2]}

\* The keys of query: the ones Surface answers and two it passes on
QueryKeys ==
    {"NATIVE_WINDOW_FORMAT", "NATIVE_WINDOW_QUEUES_TO_WINDOW_COMPOSER",
     "NATIVE_WINDOW_CONCRETE_TYPE", "NATIVE_WINDOW_DEFAULT_WIDTH",
     "NATIVE_WINDOW_DEFAULT_HEIGHT", "NATIVE_WINDOW_TRANSFORM_HINT",
     "NATIVE_WINDOW_CONSUMER_RUNNING_BEHIND", "NATIVE_WINDOW_WIDTH",
     "NATIVE_WINDOW_HEIGHT"}

QueryEnvs(what) ==
    [authentic : IF what = "NATIVE_WINDOW_QUEUES_TO_WINDOW_COMPOSER"
                 THEN BOOLEAN ELSE {FALSE},
     failed : IF what \in {"NATIVE_WINDOW_CONSUMER_RUNNING_BEHIND",
                           "NATIVE_WINDOW_WIDTH"}
              THEN BOOLEAN ELSE {FALSE},
     before : {-1}]

\* Where the pixels are not followed every buffer holds 0, and a copy that
\* fails cannot be told from one that succeeds.
Garbage == IF painter = "off" THEN {0} ELSE Colors

BltErrs == IF painter = "off" THEN {FALSE} ELSE BOOLEAN

DequeueEnvs ==
    {e \in [pick : Slots \cup {-1}, err : {NO_MEMORY}, releaseAll : BOOLEAN,
            fence : {"none", "err"}, garbage : Garbage, mapErr : BOOLEAN,
            bltErr : BltErrs] :
        /\ e.pick = -1 => (~e.releaseAll /\ e.fence = "none" /\ ~e.mapErr
                           /\ ~e.bltErr /\ e.garbage = Min(Garbage))
        /\ e.fence = "err" => (~e.mapErr /\ ~e.bltErr)}

QueueEnvs == [now : Clock, junk : JunkOutputs]

\* The dirty rectangles callers pass to lock: the first pixel, and a
\* rectangle that starts inside the largest buffer and reaches beyond it
\* (it misses the default-sized buffer altogether).
DirtyRects == {MkRect(0, 0, 1, 1), MkRect(1, 1, MaxDim + 1, MaxDim + 1)}

\* ------------------------------------------------------------------ actions
DoConnect(api) ==
    /\ Budget
    /\ Returned(Connect(World, api), [NoLast EXCEPT !.op = "connect", !.api = api])
    /\ hist' = Tick(hist)
    /\ UNCHANGED <<held, painter, frame>>

DoDisconnect(api) ==
    /\ Budget
    /\ Returned(Disconnect(World, api), [NoLast EXCEPT !.op = "disconnect", !.api = api])
    /\ hist' = Tick(hist)
    /\ UNCHANGED <<held, painter, frame>>

DoSetBufferCount(n) ==
    /\ Budget
    /\ Returned(SetBufferCount(World, n),
                [NoLast EXCEPT !.op = "setBufferCount", !.arg1 = n])
    /\ hist' = Tick(hist)
    /\ UNCHANGED <<held, painter, frame>>

DoSetBuffersDimensions(w, h) ==
    /\ Budget
    /\ Returned(SetBuffersDimensions(World, w, h),
                [NoLast EXCEPT !.op = "setBuffersDimensions", !.arg1 = w, !.arg2 = h])
    /\ hist' = Tick(hist)
    /\ UNCHANGED <<held, painter, frame>>

DoSetBuffersFormat(f) ==
    /\ Budget
    /\ Returned(SetBuffersFormat(World, f),
                [NoLast EXCEPT !.op = "setBuffersFormat", !.arg1 = f])
    /\ hist' = SetNoted(Tick(hist), "NATIVE_WINDOW_SET_BUFFERS_FORMAT", <<f>>,
                        SetBuffersFormat(World, f).ret)
    /\ UNCHANGED <<held, painter, frame>>

\* The configuration requests made through perform: each operation with
\* arguments it accepts and arguments it rejects, and an operation code
\* perform does not know.
Dims == {-1, 0, MaxDim}

Formats == {-1, 0, MaxFormat}

ConfigRequests ==
    {<<"NATIVE_WINDOW_SET_BUFFERS_DIMENSIONS", <<w, h>>>> : w \in Dims, h \in Dims}
    \cup {<<"NATIVE_WINDOW_SET_BUFFERS_USER_DIMENSIONS", <<w, h>>>> :
             w \in {0, 1}, h \in {-1, 1}}
    \cup {<<"NATIVE_WINDOW_SET_BUFFERS_FORMAT", <<f>>>> : f \in Formats}
    \cup {<<"NATIVE_WINDOW_SET_BUFFERS_GEOMETRY", <<w, h, f>>>> :
             w \in Dims, h \in Dims, f \in Formats}
    \cup {<<"NATIVE_WINDOW_SET_SCALING_MODE", <<m>>>> :
             m \in {NATIVE_WINDOW_SCALING_MODE_SCALE_CROP,
                    NATIVE_WINDOW_SCALING_MODE_SCALE_CROP + 1}}
    \cup {<<"NATIVE_WINDOW_SET_BUFFERS_TRANSFORM", <<1>>>>,
          <<"NATIVE_WINDOW_SET_BUFFERS_TIMESTAMP", <<1>>>>,
          <<"NATIVE_WINDOW_SET_USAGE", <<GRALLOC_USAGE_SW_RW>>>>,
          <<"NATIVE_WINDOW_SET_CROP", <<TRUE, MkRect(0, 0, 1, 1)>>>>,
          <<"NATIVE_WINDOW_SET_POST_TRANSFORM_CROP", <<TRUE, MkRect(0, 0, 1, 1)>>>>}

\* What lock and unlockAndPost would meet; no configuration request reads it
NoEnv ==
    [pick |-> -1, err |-> NO_MEMORY, releaseAll |-> FALSE, fence |-> "none",
     garbage |-> 0, mapErr |-> FALSE, bltErr |-> FALSE, now |-> 0]

\* Surface::perform with a configuration request
DoPerform(operation, args) ==
    /\ Budget
    /\ <<operation, args>> \in ConfigRequests
    /\ Returned(Perform(World, operation, args, NoEnv),
                [NoLast EXCEPT !.op = "perform", !.operation = operation, !.args = args])
    /\ hist' = SetNoted(Tick(hist), operation, args,
                        Perform(World, operation, args, NoEnv).ret)
    /\ UNCHANGED <<held, painter, frame>>

DoQuery(what, e) ==
    /\ Budget
    /\ Returned(Query(World, what, e),
                [NoLast EXCEPT !.op = "query", !.operation = what,
                               !.value = Query(World, what, e).value])
    /\ hist' = Tick(hist)
    /\ UNCHANGED <<held, painter, frame>>

\* Every request perform takes: each operation with arguments it accepts
\* and arguments it rejects, the two deprecated codes, and a code perform
\* does not know.
PerformRequests ==
    {<<"NATIVE_WINDOW_SET_USAGE", <<GRALLOC_USAGE_SW_RW>>>>,
     <<"NATIVE_WINDOW_SET_CROP", <<TRUE, MkRect(0, 0, 1, 1)>>>>,
     <<"NATIVE_WINDOW_SET_CROP", <<FALSE, EmptyRect>>>>,
     <<"NATIVE_WINDOW_SET_BUFFERS_GEOMETRY", <<MaxDim, MaxDim, MaxFormat>>>>,
     <<"NATIVE_WINDOW_SET_BUFFERS_GEOMETRY", <<MaxDim, MaxDim, -1>>>>,
     <<"NATIVE_WINDOW_SET_BUFFERS_GEOMETRY", <<-1, 0, MaxFormat>>>>,
     <<"NATIVE_WINDOW_SET_BUFFERS_TRANSFORM", <<1>>>>,
     <<"NATIVE_WINDOW_SET_BUFFERS_TIMESTAMP", <<1>>>>,
     <<"NATIVE_WINDOW_SET_BUFFERS_DIMENSIONS", <<MaxDim, MaxDim>>>>,
     <<"NATIVE_WINDOW_SET_BUFFERS_DIMENSIONS", <<MaxDim, 0>>>>,
     <<"NATIVE_WINDOW_SET_BUFFERS_USER_DIMENSIONS", <<1, 1>>>>,
     <<"NATIVE_WINDOW_SET_BUFFERS_USER_DIMENSIONS", <<0, -1>>>>,
     <<"NATIVE_WINDOW_SET_BUFFERS_FORMAT", <<MaxFormat>>>>,
     <<"NATIVE_WINDOW_SET_BUFFERS_FORMAT", <<-1>>>>,
     <<"NATIVE_WINDOW_SET_SCALING_MODE", <<NATIVE_WINDOW_SCALING_MODE_SCALE_CROP>>>>,
     <<"NATIVE_WINDOW_SET_SCALING_MODE", <<NATIVE_WINDOW_SCALING_MODE_SCALE_CROP + 1>>>>,
     <<"NATIVE_WINDOW_LOCK", <<FALSE, EmptyRect>>>>,
     <<"NATIVE_WINDOW_LOCK", <<TRUE, MkRect(0, 0, 1, 1)>>>>,
     <<"NATIVE_WINDOW_UNLOCK_AND_POST", <<>>>>,
     <<"NATIVE_WINDOW_API_CONNECT", <<NATIVE_WINDOW_API_EGL>>>>,
     <<"NATIVE_WINDOW_API_CONNECT", <<NATIVE_WINDOW_API_CPU>>>>,
     <<"NATIVE_WINDOW_API_DISCONNECT", <<NATIVE_WINDOW_API_EGL>>>>,
     <<"NATIVE_WINDOW_API_DISCONNECT", <<NATIVE_WINDOW_API_CPU>>>>,
     <<"NATIVE_WINDOW_CONNECT", <<>>>>,
     <<"NATIVE_WINDOW_DISCONNECT", <<>>>>,
     <<"NATIVE_WINDOW_SET_POST_TRANSFORM_CROP", <<TRUE, MkRect(0, 0, 1, 1)>>>>}
    \cup {<<"NATIVE_WINDOW_SET_BUFFER_COUNT", <<IntToSize(n)>>>> :
             n \in {-1, NUM_BUFFER_SLOTS, NUM_BUFFER_SLOTS + 1}}

\* What the call meets: only lock dequeues, only unlockAndPost queues
PerformEnvs(operation) ==
    {[pick |-> d.pick, err |-> d.err, releaseAll |-> d.releaseAll, fence |-> d.fence,
      garbage |-> d.garbage, mapErr |-> d.mapErr, bltErr |-> d.bltErr,
      now |-> q.now, junk |-> q.junk] :
        d \in {x \in DequeueEnvs :
                 /\ ~x.releaseAll
                 /\ operation # "NATIVE_WINDOW_LOCK" => x.pick = -1},
        q \in QueueEnvs}

\* The history after perform(operation, args) returned r; b was locked
PerformNoted(h, operation, args, r, b) ==
    CASE operation = "NATIVE_WINDOW_LOCK" ->
            [h EXCEPT !.lockOutstanding = IF r.ret = NO_ERROR THEN TRUE ELSE @,
                      !.lockBuffer = IF r.out.waited THEN r.out.back ELSE @]
      [] operation = "NATIVE_WINDOW_UNLOCK_AND_POST" ->
            [h EXCEPT !.lockOutstanding = FALSE,
                      !.queuedByPost = IF b # NoBuffer /\ r.ret = NO_ERROR THEN b ELSE @,
                      !.posted = IF b # NoBuffer THEN TRUE ELSE @,
                      !.redraw = EmptyRect]
      [] OTHER -> SetNoted(h, operation, args, r.ret)

\* Surface::perform with any request, the pixels not followed
DoPerformCall(operation, args, e) ==
    /\ Budget
    /\ painter = "off"
    /\ <<operation, args>> \in PerformRequests
    /\ operation = "NATIVE_WINDOW_LOCK" => (AlreadyLocked(surface) \/ BQCanDequeue(bq, e))
    /\ Returned(Perform(World, operation, args, e),
                [NoLast EXCEPT !.op = "perform", !.operation = operation,
                               !.args = args, !.env = e])
    /\ hist' = PerformNoted(Tick(hist), operation, args,
                            Perform(World, operation, args, e), surface.mLockedBuffer)
    /\ UNCHANGED <<held, painter, frame>>

\* What a lock called for a canvas meets: as for lock, and a queue that
\* refuses to dequeue because it was abandoned
CanvasEnvs ==
    {d \in DequeueEnvs : ~d.releaseAll}
    \cup {[d EXCEPT !.err = NO_INIT] : d \in {x \in DequeueEnvs : x.pick = -1}}

DoNativeLockCanvas(valid, hasRect, rect, e) ==
    /\ Budget
    /\ painter = "off"
    /\ AlreadyLocked(surface) \/ BQCanDequeue(bq, e)
    /\ Returned(NativeLockCanvas(World, hist.jni, valid, hasRect, rect, e),
                [NoLast EXCEPT
                   !.op = "nativeLockCanvas", !.hasRect = hasRect, !.rect = rect,
                   !.env = e,
                   !.out = NativeLockCanvas(World, hist.jni, valid, hasRect, rect, e).out,
                   !.exception =
                      NativeLockCanvas(World, hist.jni, valid, hasRect, rect, e).exception,
                   !.value = NativeLockCanvas(World, hist.jni, valid, hasRect, rect, e).value])
    /\ hist' = [PerformNoted(Tick(hist), IF valid THEN "NATIVE_WINDOW_LOCK" ELSE "none",
                             <<hasRect, rect>>,
                             NativeLockCanvas(World, hist.jni, valid, hasRect, rect, e),
                             surface.mLockedBuffer)
                  EXCEPT !.jni = NativeLockCanvas(World, hist.jni, valid, hasRect, rect, e).j]
    /\ UNCHANGED <<held, painter, frame>>

DoNativeUnlockCanvasAndPost(valid, e) ==
    /\ Budget
    /\ painter = "off"
    /\ Returned(NativeUnlockCanvasAndPost(World, hist.jni, valid, e),
                [NoLast EXCEPT
                   !.op = "nativeUnlockCanvasAndPost", !.now = e.now,
                   !.buffer = surface.mLockedBuffer,
                   !.exception = NativeUnlockCanvasAndPost(World, hist.jni, valid, e).exception])
    /\ hist' = [PerformNoted(Tick(hist),
                             IF valid THEN "NATIVE_WINDOW_UNLOCK_AND_POST" ELSE "none", <<>>,
                             NativeUnlockCanvasAndPost(World, hist.jni, valid, e),
                             surface.mLockedBuffer)
                  EXCEPT !.jni = NativeUnlockCanvasAndPost(World, hist.jni, valid, e).j]
    /\ UNCHANGED <<held, painter, frame>>

DoSetBuffersTimestamp(ts) ==
    /\ Budget
    /\ Returned(SetBuffersTimestamp(World, ts),
                [NoLast EXCEPT !.op = "setBuffersTimestamp", !.arg1 = ts])
    /\ hist' = Tick(hist)
    /\ UNCHANGED <<held, painter, frame>>

DequeueReturned(r) ==
    /\ Returned(r, [NoLast EXCEPT !.op = "dequeueBuffer", !.buffer = r.buffer])
    /\ held' = IF r.ret = NO_ERROR THEN held \cup {r.buffer} ELSE held

\* The application keeps at most one pointer per slot.
DoDequeueBuffer(e) ==
    /\ Budget
    /\ BQCanDequeue(bq, e)
    /\ ~e.mapErr /\ ~e.bltErr
    /\ Cardinality(held) < NUM_BUFFER_SLOTS
    /\ DequeueReturned(DequeueBuffer(World, e))
    /\ hist' = Tick(hist)
    /\ UNCHANGED <<painter, frame>>

DoQueueBuffer(b, e) ==
    /\ Budget
    /\ b \in held
    /\ Returned(QueueBuffer(World, b, -1, e),
                [NoLast EXCEPT !.op = "queueBuffer", !.buffer = b, !.now = e.now])
    /\ held' = held \ {b}
    /\ hist' = Tick(hist)
    /\ UNCHANGED <<painter, frame>>

\* The buffers the application was handed and has already given back, whose
\* pointers it can still pass: those the Surface still caches.  (Where lock
\* is not used every cached buffer has been handed out by dequeueBuffer.)
StalePointers == {surface.mSlots[i].buffer : i \in Slots} \ (held \cup {NoBuffer})

\* Surface::queueBuffer called again on a buffer already given back
DoQueueStale(b, e) ==
    /\ Budget
    /\ b \in StalePointers
    /\ Returned(QueueBuffer(World, b, -1, e),
                [NoLast EXCEPT !.op = "queueBuffer", !.buffer = b, !.now = e.now])
    /\ hist' = Tick(hist)
    /\ UNCHANGED <<held, painter, frame>>

\* The rectangles passed to setCrop: empty, inside the smallest buffer,
\* reaching beyond the largest, starting left of and above the buffer,
\* beyond every buffer.
CropRects ==
    {MkRect(1, 1, 1, 1), MkRect(0, 0, 1, 1), MkRect(1, 1, MaxDim + 1, MaxDim + 1),
     MkRect(-1, -1, 1, 1), MkRect(MaxDim, MaxDim, MaxDim + 1, MaxDim + 1)}

CropArgs == {<<FALSE, EmptyRect>>} \cup {<<TRUE, r>> : r \in CropRects}

DoSetCrop(hasRect, rect) ==
    /\ Budget
    /\ Returned(SetCrop(World, hasRect, rect),
                [NoLast EXCEPT !.op = "setCrop", !.hasRect = hasRect, !.rect = rect])
    /\ hist' = Tick(hist)
    /\ UNCHANGED <<held, painter, frame>>

DoCancelBuffer(b) ==
    /\ Budget
    /\ b \in held
    /\ Returned(CancelBuffer(World, b), [NoLast EXCEPT !.op = "cancelBuffer", !.buffer = b])
    /\ held' = held \ {b}
    /\ hist' = Tick(hist)
    /\ UNCHANGED <<painter, frame>>

LockReturned(r, hasRect, rect) ==
    /\ Returned(r, [NoLast EXCEPT !.op = "lock", !.hasRect = hasRect, !.rect = rect,
                                  !.out = r.out])
    /\ hist' = [Tick(hist) EXCEPT
                  !.lockOutstanding = IF r.ret = NO_ERROR THEN TRUE ELSE @,
                  !.lockBuffer = IF r.out.waited THEN r.out.back ELSE @,
                  !.redraw = IF painter = "idle" /\ r.ret = NO_ERROR
                             THEN (IF hasRect THEN r.out.dirtyOut
                                   ELSE BufferBounds(r.out.back))
                             ELSE @]
    /\ painter' = IF painter = "idle" /\ r.ret = NO_ERROR THEN "locked" ELSE painter

DoLock(hasRect, rect, e) ==
    /\ Budget
    /\ painter \in {"off", "idle"}
    /\ AlreadyLocked(surface) \/ BQCanDequeue(bq, e)
    /\ LockReturned(Lock(World, hasRect, rect, e), hasRect, rect)
    /\ UNCHANGED <<held, frame>>

\* Thread t calls lock() and makes its opening test of mLockedBuffer.
DoLockEnter(t) ==
    /\ Budget
    /\ painter = "off"
    /\ hist.threads[t].pc = "out"
    /\ hist' = [Tick(hist) EXCEPT
                  !.threads[t] = IF AlreadyLocked(surface)
                                 THEN [pc |-> "returned", ret |-> INVALID_OPERATION,
                                       crossed |-> FALSE]
                                 ELSE [pc |-> "entered", ret |-> "none", crossed |-> FALSE]]
    /\ last' = [NoLast EXCEPT !.op = "lock", !.arg1 = t,
                              !.ret = IF AlreadyLocked(surface)
                                      THEN INVALID_OPERATION ELSE "none"]
    /\ UNCHANGED <<surface, bq, heap, held, painter, frame, flinger, power>>

\* The history once thread t has come back from lock() with r
LockFinished(h, t, r) ==
    [h EXCEPT !.lockOutstanding = IF r.ret = NO_ERROR THEN TRUE ELSE @,
              !.lockBuffer = IF r.out.waited THEN r.out.back ELSE @,
              !.threads[t] = IF @.crossed THEN ThreadOut
                             ELSE [@ EXCEPT !.pc = "returned", !.ret = r.ret]]

\* Thread t, past the opening test, runs the rest of lock().
DoLockFinish(t, e) ==
    /\ hist.threads[t].pc = "entered"
    /\ BQCanDequeue(bq, e)
    /\ Returned(LockEntered(World, FALSE, EmptyRect, e),
                [NoLast EXCEPT !.op = "lockFinish", !.arg1 = t,
                               !.out = LockEntered(World, FALSE, EmptyRect, e).out])
    /\ hist' = LockFinished(hist, t, LockEntered(World, FALSE, EmptyRect, e))
    /\ UNCHANGED <<held, painter, frame>>

\* The pixels the caller of lock has to redraw
DrawArea == RectPixels(hist.redraw)

\* The caller redraws exactly the dirty rectangle lock gave back, in one
\* colour.
DoDraw(c) ==
    /\ painter = "locked"
    /\ heap' = [heap EXCEPT ![surface.mLockedBuffer.handle] =
                               [p \in Pixels |-> IF p \in DrawArea THEN c ELSE @[p]]]
    /\ painter' = "drawn"
    /\ last' = [last EXCEPT !.op = "draw"]
    /\ UNCHANGED <<surface, bq, held, frame, hist, flinger, power>>

UnlockAndPostReturned(r, b, e) ==
    /\ Returned(r, [NoLast EXCEPT !.op = "unlockAndPost", !.now = e.now, !.buffer = b])
    /\ hist' = [Tick(hist) EXCEPT
                  !.lockOutstanding = FALSE,
                  !.queuedByPost = IF b # NoBuffer /\ r.ret = NO_ERROR THEN b ELSE @,
                  !.posted = IF b # NoBuffer THEN TRUE ELSE @,
                  !.threads = [t \in Threads |->
                                  IF @[t].pc = "entered" THEN [@[t] EXCEPT !.crossed = TRUE]
                                  ELSE ThreadOut],
                  !.redraw = EmptyRect]
    /\ frame' = IF painter = "drawn" THEN heap[b.handle] ELSE frame
    /\ painter' = IF painter = "drawn" THEN "idle" ELSE painter

DoUnlockAndPost(e) ==
    /\ Budget
    /\ painter \in {"off", "idle", "drawn"}
    /\ UnlockAndPostReturned(UnlockAndPost(World, e), surface.mLockedBuffer, e)
    /\ UNCHANGED <<held>>

\* The consumer latches the next queued buffer.
DoLatch ==
    /\ bq.fifo # <<>>
    /\ bq' = BQLatch(bq)
    /\ last' = [NoLast EXCEPT !.op = "latch"]
    /\ UNCHANGED <<surface, heap, held, painter, frame, hist, flinger, power>>

\* A step of the compositor or of one of its clients: f is the compositor
\* after it, q the buffer queue after it.
FlingerStep(name, f, q) ==
    /\ flinger' = f
    /\ bq' = q
    /\ last' = [NoLast EXCEPT !.op = name]
    /\ UNCHANGED <<surface, heap, held, painter, frame, hist, power>>

DoRequestLayers ==
    /\ flinger.request = 0
    /\ StateLockFree(flinger.mStateLock)
    /\ FlingerStep("setClientState", RequestLayers(flinger), bq)

DoRequestDisplays ==
    /\ flinger.request = 1
    /\ FlingerStep("setDisplayState", RequestDisplays(flinger), bq)

DoRequestTraversal ==
    /\ flinger.request = 0
    /\ ~HasBit(flinger.mTransactionFlags, eTraversalNeeded)
    /\ FlingerStep("setTransactionFlags", RequestTraversal(flinger), bq)

DoWaitForEvent ==
    /\ flinger.pc = "waitForEvent"
    /\ flinger.iterations < MaxFrames
    /\ FlingerStep("waitForEvent", [flinger EXCEPT !.pc = "handleMessageTransaction"], bq)

\* The commit waits for the state lock.
DoHandleMessageTransaction ==
    /\ flinger.pc = "handleMessageTransaction"
    /\ flinger.mTransactionFlags # 0 => StateLockFree(flinger.mStateLock)
    /\ FlingerStep("handleMessageTransaction", HandleMessageTransaction(flinger), bq)

DoHandlePageFlip ==
    /\ flinger.pc = "handlePageFlip"
    /\ IF bq.fifo # <<>>
       THEN FlingerStep("handlePageFlip", HandlePageFlipLatched(flinger, bq), BQLatch(bq))
       ELSE FlingerStep("handlePageFlip",
                        [flinger EXCEPT !.pc = "handleMessageRefresh"], bq)

\* The displays that fail in a frame: none, or where failures are followed
\* any one of the drawing state's.
DisplayFaults ==
    IF flinger.faults
    THEN {{}} \cup {{d} : d \in DisplaysOf(flinger.mDrawingState)}
    ELSE {{}}

DoHandleMessageRefresh ==
    /\ flinger.pc = "handleMessageRefresh"
    /\ \E failing \in DisplayFaults :
          FlingerStep("handleMessageRefresh", HandleMessageRefresh(flinger, failing), bq)

DoPostFramebuffer ==
    /\ flinger.pc = "postFramebuffer"
    /\ FlingerStep("postFramebuffer", PostFramebuffer(flinger), BQRelease(bq))

\* The vsync pulse with a frame pending: the loop wakes however many
\* iterations it has run.
DoVsync ==
    /\ flinger.pc = "waitForEvent"
    /\ bq.fifo # <<>>
    /\ FlingerStep("vsync", [flinger EXCEPT !.pc = "handleMessageTransaction"], bq)

MainLoop ==
    \/ DoWaitForEvent
    \/ DoHandleMessageTransaction
    \/ DoHandlePageFlip
    \/ DoHandleMessageRefresh
    \/ DoPostFramebuffer

\* -------------------------------------------------------------- specification
Apis == {NATIVE_WINDOW_API_EGL, NATIVE_WINDOW_API_CPU}

Init ==
    /\ surface = SurfaceInit
    /\ bq = BQInit
    /\ heap = BlankHeap
    /\ held = {}
    /\ painter = "off"
    /\ frame = [p \in Pixels |-> 0]
    /\ last = NoLast
    /\ flinger = FlingerInit
    /\ hist = HistInit
    /\ power = PowerInit

\* The buffer protocol: every way into and out of the queue, the geometry
\* left at its default.
Next ==
    \/ \E api \in Apis : DoConnect(api)
    \/ \E api \in Apis : DoDisconnect(api)
    \/ \E n \in {NUM_BUFFER_SLOTS, NUM_BUFFER_SLOTS + 1} : DoSetBufferCount(n)
    \/ \E ts \in {NATIVE_WINDOW_TIMESTAMP_AUTO} \cup ExplicitTimestamps :
          DoSetBuffersTimestamp(ts)
    \/ \E e \in DequeueEnvs : DoDequeueBuffer(e)
    \/ \E b \in held, e \in QueueEnvs : DoQueueBuffer(b, e)
    \/ \E b \in held : DoCancelBuffer(b)
    \/ \E e \in DequeueEnvs : DoLock(FALSE, EmptyRect, e)
    \/ \E e \in QueueEnvs : DoUnlockAndPost(e)
    \/ DoLatch

Spec == Init /\ [][Next]_vars

\* The direct-pixel path under changing geometry and format: lock with and
\* without a dirty rectangle, unlockAndPost, the setters lock depends on.
LockEnvs == {e \in DequeueEnvs : e.releaseAll => (e.fence = "none" /\ ~e.mapErr)}

LockArgs == {<<FALSE, EmptyRect>>} \cup {<<TRUE, r>> : r \in DirtyRects}

NextDirty ==
    \/ \E d \in {0, MaxDim} : DoSetBuffersDimensions(d, d)
    \/ \E f \in {0, MaxFormat} : DoSetBuffersFormat(f)
    \/ \E a \in LockArgs, e \in LockEnvs : DoLock(a[1], a[2], e)
    \/ \E e \in QueueEnvs : DoUnlockAndPost(e)
    \/ DoLatch

SpecDirty == Init /\ [][NextDirty]_vars

\* The same operations followed through longer histories.
InitLong ==
    /\ surface = SurfaceInit
    /\ bq = BQInit
    /\ heap = BlankHeap
    /\ held = {}
    /\ painter = "off"
    /\ frame = [p \in Pixels |-> 0]
    /\ last = NoLast
    /\ flinger = FlingerInit
    /\ hist = [HistInit EXCEPT !.limit = MaxLongOps]
    /\ power = PowerInit

SpecDirtyLong == InitLong /\ [][NextDirty]_vars

\* Frames drawn by a caller who repaints exactly what lock tells it to: with
\* the pixel memory followed, buffers of the default and of the largest size,
\* every lock getting its buffer and mapping it.
InitBlt ==
    /\ surface = SurfaceInit
    /\ bq = BQInit
    /\ heap = BlankHeap
    /\ held = {}
    /\ painter = "idle"
    /\ frame = [p \in Pixels |-> 0]
    /\ last = NoLast
    /\ flinger = FlingerInit
    /\ hist = HistInit
    /\ power = PowerInit

BltEnvs == {e \in DequeueEnvs : ~e.releaseAll /\ e.fence = "none" /\ ~e.mapErr}

NextBlt ==
    \/ \E d \in {0, MaxDim} : DoSetBuffersDimensions(d, d)
    \/ \E a \in LockArgs, e \in BltEnvs : DoLock(a[1], a[2], e)
    \/ \E c \in Colors : DoDraw(c)
    \/ \E e \in QueueEnvs : DoUnlockAndPost(e)
    \/ DoLatch

SpecBlt == InitBlt /\ [][NextBlt]_vars

\* The configuration requests, accepted and rejected, and the dequeueBuffer
\* calls that read what they set.
InitConfig ==
    /\ surface = SurfaceInit
    /\ bq = BQInit
    /\ heap = BlankHeap
    /\ held = {}
    /\ painter = "off"
    /\ frame = [p \in Pixels |-> 0]
    /\ last = NoLast
    /\ flinger = FlingerInit
    /\ hist = [HistInit EXCEPT !.limit = MaxConfigOps]
    /\ power = PowerInit

ConfigEnvs == {e \in DequeueEnvs : ~e.releaseAll /\ e.fence = "none" /\ ~e.mapErr}

NextConfig ==
    \/ \E r \in ConfigRequests : DoPerform(r[1], r[2])
    \/ \E w \in Dims, h \in Dims : DoSetBuffersDimensions(w, h)
    \/ \E e \in ConfigEnvs : DoDequeueBuffer(e)

SpecConfig == InitConfig /\ [][NextConfig]_vars

\* Sessions: connect, requests that move the configuration away from its
\* defaults, dequeueBuffer filling the cache, disconnect in and out of
\* sequence.
SessionRequests ==
    {<<"NATIVE_WINDOW_SET_BUFFERS_GEOMETRY", <<MaxDim, MaxDim, MaxFormat>>>>,
     <<"NATIVE_WINDOW_SET_SCALING_MODE", <<NATIVE_WINDOW_SCALING_MODE_SCALE_CROP>>>>,
     <<"NATIVE_WINDOW_SET_BUFFERS_TRANSFORM", <<1>>>>,
     <<"NATIVE_WINDOW_SET_USAGE", <<GRALLOC_USAGE_SW_RW>>>>,
     <<"NATIVE_WINDOW_SET_CROP", <<TRUE, MkRect(0, 0, 1, 1)>>>>}

NextSession ==
    \/ \E api \in Apis : DoConnect(api)
    \/ \E api \in Apis : DoDisconnect(api)
    \/ \E r \in SessionRequests : DoPerform(r[1], r[2])
    \/ \E e \in ConfigEnvs : DoDequeueBuffer(e)

SpecSession == Init /\ [][NextSession]_vars

\* Queueing: buffers of the default and of the largest size, queued under
\* every crop, once or again after they were given back, with the consumer
\* latching or falling behind.
NextQueue ==
    \/ DoConnect(NATIVE_WINDOW_API_EGL)
    \/ \E a \in CropArgs : DoSetCrop(a[1], a[2])
    \/ \E d \in {0, MaxDim} : DoSetBuffersDimensions(d, d)
    \/ \E e \in ConfigEnvs : DoDequeueBuffer(e)
    \/ \E b \in held, e \in QueueEnvs : DoQueueBuffer(b, e)
    \/ \E b \in StalePointers, e \in QueueEnvs : DoQueueStale(b, e)
    \/ DoLatch

SpecQueue == Init /\ [][NextQueue]_vars

\* Queries between the calls that change what they report: connect and
\* queueBuffer bring the queue's defaults and the running-behind flag, the
\* user dimensions and the format override them, the consumer drains the
\* queue.
InitQuery ==
    /\ surface = SurfaceInit
    /\ bq = BQInit
    /\ heap = BlankHeap
    /\ held = {}
    /\ painter = "off"
    /\ frame = [p \in Pixels |-> 0]
    /\ last = NoLast
    /\ flinger = FlingerInit
    /\ hist = [HistInit EXCEPT !.limit = MaxQueryOps]
    /\ power = PowerInit

QueryRequests ==
    {<<"NATIVE_WINDOW_SET_BUFFERS_USER_DIMENSIONS", <<MaxDim, MaxDim>>>>,
     <<"NATIVE_WINDOW_SET_BUFFERS_FORMAT", <<MaxFormat>>>>}

NextQuery ==
    \/ DoConnect(NATIVE_WINDOW_API_EGL)
    \/ \E r \in QueryRequests : DoPerform(r[1], r[2])
    \/ \E e \in ConfigEnvs : e.pick # -1 /\ DoDequeueBuffer(e)
    \/ \E b \in held, e \in QueueEnvs : DoQueueBuffer(b, e)
    \/ DoLatch
    \/ \E what \in QueryKeys : \E e \in QueryEnvs(what) : DoQuery(what, e)

SpecQuery == InitQuery /\ [][NextQuery]_vars

\* Everything that goes through perform, from the states perform itself
\* leads to: connected or not, locked or not, buffers cached or not.
NextPerform ==
    \E r \in PerformRequests : \E e \in PerformEnvs(r[1]) : DoPerformCall(r[1], r[2], e)

SpecPerform == InitConfig /\ [][NextPerform]_vars

\* The managed layer locking a canvas and posting it, on a Surface that
\* another producer may have connected to first.
NextCanvas ==
    \/ DoConnect(NATIVE_WINDOW_API_EGL)
    \/ \E valid \in BOOLEAN, a \in LockArgs, e \in CanvasEnvs :
          DoNativeLockCanvas(valid, a[1], a[2], e)
    \/ \E valid \in BOOLEAN, e \in QueueEnvs : DoNativeUnlockCanvasAndPost(valid, e)
    \/ DoLatch

SpecCanvas == Init /\ [][NextCanvas]_vars

\* The compositor with clients that change the scene and a producer that
\* queues buffers.
FlingerEnvs == {e \in ConfigEnvs : e.pick # -1 /\ bq.slots[e.pick].state = "FREE"}

NextFlinger ==
    \/ DoRequestLayers
    \/ DoRequestDisplays
    \/ DoRequestTraversal
    \/ MainLoop
    \/ \E e \in FlingerEnvs : DoDequeueBuffer(e)
    \/ \E b \in held, e \in QueueEnvs : DoQueueBuffer(b, e)

SpecFlinger == InitConfig /\ [][NextFlinger]_vars

\* The compositor latching the frames of a producer that locks with and
\* without a dirty rectangle and posts.
NextDamage ==
    \/ DoSetBuffersDimensions(MaxDim, MaxDim)
    \/ \E a \in LockArgs, e \in FlingerEnvs : DoLock(a[1], a[2], e)
    \/ \E e \in QueueEnvs : DoUnlockAndPost(e)
    \/ MainLoop

SpecDamage == InitLong /\ [][NextDamage]_vars

\* The compositor loop driven by the vsync pulse, and a producer that stays
\* connected and hands it frames both ways (dequeueBuffer and queueBuffer,
\* lock and unlockAndPost).  The loop and the pulse are scheduled fairly.
NextVsync ==
    \/ \E e \in FlingerEnvs : DoDequeueBuffer(e)
    \/ \E b \in held, e \in QueueEnvs : DoQueueBuffer(b, e)
    \/ \E e \in FlingerEnvs : DoLock(FALSE, EmptyRect, e)
    \/ \E e \in QueueEnvs : DoUnlockAndPost(e)
    \/ DoVsync
    \/ MainLoop

SpecVsync == Init /\ [][NextVsync]_vars /\ WF_vars(DoVsync \/ MainLoop)

\* The compositor showing the two-display scene, with displays that go
\* missing or fail to composite, clients that ask for traversals and a
\* producer that queues buffers.  The loop is scheduled fairly.
TwoDisplays == State(<<1, 2>>, 1)

InitDisplays ==
    /\ surface = SurfaceInit
    /\ bq = BQInit
    /\ heap = BlankHeap
    /\ held = {}
    /\ painter = "off"
    /\ frame = [p \in Pixels |-> 0]
    /\ last = NoLast
    /\ flinger = [FlingerInit EXCEPT !.faults = TRUE,
                                     !.mCurrentState = TwoDisplays,
                                     !.mDrawingState = TwoDisplays,
                                     !.composed.state = TwoDisplays,
                                     !.whole = TwoDisplays,
                                     !.snapshot = TwoDisplays]
    /\ hist = [HistInit EXCEPT !.limit = MaxConfigOps]
    /\ power = PowerInit

NextDisplays ==
    \/ DoRequestTraversal
    \/ MainLoop
    \/ \E e \in FlingerEnvs : DoDequeueBuffer(e)
    \/ \E b \in held, e \in QueueEnvs : DoQueueBuffer(b, e)

SpecDisplays == InitDisplays /\ [][NextDisplays]_vars /\ WF_vars(MainLoop)

\* Two threads that call lock() on one Surface, and unlockAndPost().
NextThreads ==
    \/ \E t \in Threads : DoLockEnter(t)
    \/ \E t \in Threads, e \in DequeueEnvs : DoLockFinish(t, e)
    \/ \E e \in QueueEnvs : DoUnlockAndPost(e)
    \/ DoLatch

SpecThreads == Init /\ [][NextThreads]_vars

\* The direct-pixel path with fences: lock with and without a dirty
\* rectangle, its dequeueBuffer, fence wait and mapping succeeding or
\* failing, and unlockAndPost.
NextFence ==
    \/ \E a \in LockArgs, e \in LockEnvs : DoLock(a[1], a[2], e)
    \/ \E e \in QueueEnvs : DoUnlockAndPost(e)
    \/ DoLatch

SpecFence == Init /\ [][NextFence]_vars

\* Disconnects, accepted and rejected, of a Surface whose configuration has
\* been moved from its defaults and that has locked and posted buffers.
DisconnectRequests ==
    {<<"NATIVE_WINDOW_SET_BUFFERS_GEOMETRY", <<MaxDim, MaxDim, MaxFormat>>>>,
     <<"NATIVE_WINDOW_SET_BUFFERS_USER_DIMENSIONS", <<1, 1>>>>,
     <<"NATIVE_WINDOW_SET_BUFFERS_TIMESTAMP", <<1>>>>,
     <<"NATIVE_WINDOW_SET_CROP", <<TRUE, MkRect(0, 0, 1, 1)>>>>}

NextDisconnect ==
    \/ DoConnect(NATIVE_WINDOW_API_EGL)
    \/ \E api \in Apis : DoDisconnect(api)
    \/ \E r \in DisconnectRequests : DoPerform(r[1], r[2])
    \/ \E e \in ConfigEnvs : DoLock(FALSE, EmptyRect, e)
    \/ \E e \in QueueEnvs : DoUnlockAndPost(e)

SpecDisconnect == Init /\ [][NextDisconnect]_vars

\* Buffers handed back after the Surface has dropped its cache: dequeued
\* before a disconnect, a setBufferCount or a dequeue that releases all
\* buffers, then queued or cancelled.
ForgetEnvs == {e \in DequeueEnvs : e.fence = "none" /\ ~e.mapErr /\ ~e.bltErr}

NextForget ==
    \/ DoConnect(NATIVE_WINDOW_API_EGL)
    \/ DoDisconnect(NATIVE_WINDOW_API_EGL)
    \/ DoSetBufferCount(NUM_BUFFER_SLOTS)
    \/ \E e \in ForgetEnvs : DoDequeueBuffer(e)
    \/ \E b \in held, e \in QueueEnvs : DoQueueBuffer(b, e)
    \/ \E b \in held : DoCancelBuffer(b)
    \/ DoLatch

SpecForget == Init /\ [][NextForget]_vars

\* User activity: the instants the monotonic clock is read at, the event
\* times callers pass (one before the clock's origin, one ahead of every
\* reading) and the event types, valid and not.
Instants ==
    {MIN_TIME_BETWEEN_USERACTIVITIES - 1, MIN_TIME_BETWEEN_USERACTIVITIES,
     2 * MIN_TIME_BETWEEN_USERACTIVITIES}

EventTimes == {-1, 3 * MIN_TIME_BETWEEN_USERACTIVITIES} \cup Instants

EventTypes == -1 .. USER_ACTIVITY_EVENT_LAST + 1

DoNativeInit ==
    /\ ~power.gPowerManagerServiceObj
    /\ power' = NativeInit(power)
    /\ last' = [NoLast EXCEPT !.op = "nativeInit"]
    /\ UNCHANGED <<surface, bq, heap, held, painter, frame, hist, flinger>>

DoUserActivity(eventTime, eventType, now) ==
    /\ Budget
    /\ now >= power.clock
    /\ power' = [UserActivity(power, eventTime, eventType, now) EXCEPT !.clock = now]
    /\ last' = [NoLast EXCEPT !.op = "userActivity", !.arg1 = eventTime,
                              !.arg2 = eventType, !.now = now]
    /\ hist' = Tick(hist)
    /\ UNCHANGED <<surface, bq, heap, held, painter, frame, flinger>>

NextPower ==
    \/ DoNativeInit
    \/ \E eventTime \in EventTimes, eventType \in EventTypes, now \in Instants :
          DoUserActivity(eventTime, eventType, now)

SpecPower == InitConfig /\ [][NextPower]_vars

\* ------------------------------------------------------------------- claims
\* C1: a lock called while a buffer is locked returns INVALID_OPERATION,
\* leaves mLockedBuffer (and the rest of the Surface) as it was and makes no
\* call on the buffer queue, so nothing is dequeued.
C1_LockWhileLocked ==
    [][(hist.lockOutstanding /\ last'.op = "lock")
         => /\ last'.ret = INVALID_OPERATION
            /\ surface'.mLockedBuffer = surface.mLockedBuffer
            /\ surface' = surface
            /\ last'.calls = <<>>
            /\ bq' = bq]_vars

C1_Witness ==
    /\ last.op = "lock"
    /\ last.ret = INVALID_OPERATION
    /\ last.calls = <<>>
    /\ surface.mLockedBuffer # NoBuffer

\* C2: mLockedBuffer is non-null exactly while the most recent successful
\* lock has not been followed by an unlockAndPost, and no operation other
\* than lock and unlockAndPost changes it.
C2_LockedIffOutstanding ==
    /\ [](surface.mLockedBuffer # NoBuffer <=> hist.lockOutstanding)
    /\ [][last'.op \notin {"lock", "unlockAndPost"}
            => surface'.mLockedBuffer = surface.mLockedBuffer]_vars

C2_Witness ==
    /\ last.op = "disconnect"
    /\ last.ret = NO_ERROR
    /\ hist.lockOutstanding
    /\ surface.mLockedBuffer # NoBuffer

\* C3: an unlockAndPost called with nothing locked returns INVALID_OPERATION,
\* makes no queueBuffer call (no call on the queue at all) and changes
\* nothing.
C3_UnlockWithoutLock ==
    [][(~hist.lockOutstanding /\ last'.op = "unlockAndPost")
         => /\ last'.ret = INVALID_OPERATION
            /\ last'.calls = <<>>
            /\ surface' = surface
            /\ bq' = bq
            /\ heap' = heap]_vars

C3_Witness ==
    /\ last.op = "unlockAndPost"
    /\ last.ret = INVALID_OPERATION
    /\ last.buffer = NoBuffer
    /\ hist.posted

\* C4: mPostedBuffer is none or the buffer most recently queued with success
\* by unlockAndPost, whatever is called between lock and unlockAndPost.
C4_PostedIsQueued ==
    surface.mPostedBuffer = NoBuffer \/ surface.mPostedBuffer = hist.queuedByPost

\* C5 as stated: every queueBuffer call made by unlockAndPost carries an
\* automatically chosen timestamp and no fence.
C5_AsStated ==
    last.op = "unlockAndPost" =>
        \A i \in DOMAIN last.calls :
            last.calls[i].fn = "queueBuffer" =>
                /\ last.calls[i].isAutoTimestamp
                /\ last.calls[i].timestamp = last.now
                /\ last.calls[i].fence = "NO_FENCE"

\* C5 amended: the queueBuffer call made by unlockAndPost carries no fence;
\* its timestamp is chosen automatically (the current time) exactly when
\* mTimestamp is NATIVE_WINDOW_TIMESTAMP_AUTO, and is otherwise the timestamp
\* set by setBuffersTimestamp.
C5_TimestampPolicy ==
    last.op = "unlockAndPost" =>
        \A i \in DOMAIN last.calls :
            last.calls[i].fn = "queueBuffer" =>
                /\ last.calls[i].fence = "NO_FENCE"
                /\ last.calls[i].isAutoTimestamp
                      <=> surface.mTimestamp = NATIVE_WINDOW_TIMESTAMP_AUTO
                /\ last.calls[i].timestamp =
                      IF surface.mTimestamp = NATIVE_WINDOW_TIMESTAMP_AUTO
                      THEN last.now ELSE surface.mTimestamp

C5_Witness ==
    /\ last.op = "unlockAndPost"
    /\ last.ret = NO_ERROR
    /\ surface.mTimestamp # NATIVE_WINDOW_TIMESTAMP_AUTO
    /\ \E i \in DOMAIN last.calls :
          /\ last.calls[i].fn = "queueBuffer"
          /\ ~last.calls[i].isAutoTimestamp
          /\ last.calls[i].timestamp = surface.mTimestamp

\* The posted buffer exists and has the width, height and format of b
SamePosted(posted, b) ==
    /\ posted # NoBuffer
    /\ posted.width = b.width
    /\ posted.height = b.height
    /\ posted.format = b.format

\* C6: with the geometry and format unchanged since the previous frame, when
\* the caller redraws exactly the rectangle lock returned, every pixel of the
\* locked buffer outside that rectangle already equals the pixel of the frame
\* posted before.
C6_CleanPixelsKept ==
    (painter = "locked" /\ hist.posted /\ SamePosted(hist.queuedByPost, surface.mLockedBuffer))
       => \A p \in RectPixels(BufferBounds(surface.mLockedBuffer)) \ DrawArea :
              heap[surface.mLockedBuffer.handle][p] = frame[p]

\* C7: a lock given the dirty rectangle R, when a posted buffer of the new
\* buffer's width, height and format exists, blits exactly the region
\* (mDirtyRegion before the call) minus (R within the buffer bounds), blits
\* nothing when that region is empty, and returns the bounds of R within the
\* buffer bounds.
C7_CopybackRegion ==
    [][(/\ last'.op = "lock"
        /\ last'.out.waited
        /\ last'.hasRect
        /\ SamePosted(surface.mPostedBuffer, last'.out.back))
         => /\ last'.out.copyback =
                  surface.mDirtyRegion
                     \ (RectPixels(last'.rect)
                           \cap RectPixels(BufferBounds(last'.out.back)))
            /\ last'.out.blitted <=> last'.out.copyback # {}
            /\ ~last'.out.blitted => heap' = heap
            /\ last'.out.dirtyOut =
                  RegionBounds(RectPixels(last'.rect)
                                  \cap RectPixels(BufferBounds(last'.out.back)))]_vars

C7_Witness ==
    /\ last.op = "lock"
    /\ last.ret = NO_ERROR
    /\ last.hasRect
    /\ last.out.canCopyBack
    /\ last.out.blitted
    /\ last.out.copyback # RectPixels(BufferBounds(last.out.back))
    /\ last.out.newDirty # {}
    /\ last.out.dirtyOut # BufferBounds(last.out.back)

\* C8: a lock that finds no posted buffer of the new buffer's width, height
\* and format returns the full buffer bounds as the dirty rectangle whatever
\* was requested, copies nothing back, leaves every per-slot dirty region
\* but the new buffer's empty, and leaves mDirtyRegion equal to the full
\* buffer bounds.
C8_FullRedraw ==
    [][(/\ last'.op = "lock"
        /\ last'.out.waited
        /\ ~SamePosted(surface.mPostedBuffer, last'.out.back))
         => /\ last'.hasRect => last'.out.dirtyOut = BufferBounds(last'.out.back)
            /\ ~last'.out.blitted
            /\ heap' = heap
            /\ \A i \in Slots \ {last'.out.slot} : surface'.mSlots[i].dirtyRegion = {}
            /\ surface'.mDirtyRegion = RectPixels(BufferBounds(last'.out.back))]_vars

C8_Witness ==
    /\ last.op = "lock"
    /\ last.ret = NO_ERROR
    /\ last.hasRect
    /\ last.rect # BufferBounds(last.out.back)
    /\ surface.mPostedBuffer # NoBuffer
    /\ surface.mPostedBuffer.format # last.out.back.format
    /\ last.out.dirtyOut = BufferBounds(last.out.back)

\* C9: a lock that can copy back and dequeues the buffer of slot s with the
\* new dirty region D leaves mDirtyRegion equal to (mDirtyRegion before,
\* minus the region stored for slot s before) union D, and stores D for
\* slot s.
C9_SlotContributionRemoved ==
    [][(/\ last'.op = "lock"
        /\ last'.out.waited
        /\ last'.out.canCopyBack)
         => /\ surface'.mDirtyRegion =
                  (surface.mDirtyRegion \ surface.mSlots[last'.out.slot].dirtyRegion)
                     \cup last'.out.newDirty
            /\ surface'.mSlots[last'.out.slot].dirtyRegion = last'.out.newDirty]_vars

\* The dirty regions the Surface keeps, all together
AllDirty(s) == s.mDirtyRegion \cup UNION {s.mSlots[i].dirtyRegion : i \in Slots}

\* C10: the per-slot dirty regions and mDirtyRegion all lie within the bounds
\* of the buffer lock last dequeued and went on to work with.
C10_DirtyWithinBounds ==
    IF hist.lockBuffer = NoBuffer
    THEN AllDirty(surface) = {}
    ELSE AllDirty(surface) \subseteq RectPixels(BufferBounds(hist.lockBuffer))

\* C11: every slot of the queue is in exactly one of the states free,
\* dequeued, queued and displayed (acquired), and no buffer the producer
\* holds for writing (dequeued by the application and not yet given back, or
\* exposed by lock as mLockedBuffer) is at the same time the buffer of a slot
\* the compositor holds for reading (queued or acquired).
ProducerHeld == held \cup (IF surface.mLockedBuffer = NoBuffer THEN {}
                           ELSE {surface.mLockedBuffer})

ConsumerHeld ==
    {bq.slots[i].buffer : i \in {j \in Slots : bq.slots[j].state \in {"QUEUED", "ACQUIRED"}}}

C11_SlotOwnership ==
    /\ \A i \in Slots : bq.slots[i].state \in {"FREE", "DEQUEUED", "QUEUED", "ACQUIRED"}
    /\ ProducerHeld \cap ConsumerHeld = {}

\* a buffer locked for writing while the compositor shows one frame and has
\* another... with two slots: one slot acquired, the other locked
C11_Witness ==
    /\ surface.mLockedBuffer # NoBuffer
    /\ \E i \in Slots : /\ bq.slots[i].state = "ACQUIRED"
                        /\ bq.slots[i].buffer # NoBuffer
    /\ \E i \in Slots : /\ bq.slots[i].state = "DEQUEUED"
                        /\ bq.slots[i].buffer = surface.mLockedBuffer

\* C12: when dequeueBuffer has returned the buffer of slot s and cancelBuffer
\* is called on it next, the Surface calls cancelBuffer(s) on the queue (and
\* nothing else), the slot is free again with the buffer it had, and the
\* Surface (its cached buffers included) is unchanged; when the next
\* dequeueBuffer returns slot s again and the queue did not reallocate, the
\* caller gets the same buffer and requestBuffer is not called.
DequeuedSlot(l) == l.calls[1].slot

CancelAfterDequeue ==
    /\ last.op = "dequeueBuffer" /\ last.ret = NO_ERROR
    /\ last'.op = "cancelBuffer" /\ last'.buffer = last.buffer

DequeueAfterCancel ==
    /\ last.op = "cancelBuffer" /\ last.ret = NO_ERROR
    /\ Len(last.calls) = 1
    /\ last'.op = "dequeueBuffer" /\ last'.ret = NO_ERROR
    /\ DequeuedSlot(last') = last.calls[1].slot
    /\ bq'.slots[DequeuedSlot(last')].buffer = bq.slots[DequeuedSlot(last')].buffer

CancelRoundTrip ==
    /\ CancelAfterDequeue =>
         /\ last'.ret = NO_ERROR
         /\ last'.calls = <<[NoCall EXCEPT !.fn = "cancelBuffer",
                                           !.slot = DequeuedSlot(last)]>>
         /\ bq'.slots[DequeuedSlot(last)] =
               [state |-> "FREE", buffer |-> bq.slots[DequeuedSlot(last)].buffer]
         /\ bq.slots[DequeuedSlot(last)].buffer = last.buffer
         /\ surface' = surface
         /\ heap' = heap
    /\ DequeueAfterCancel =>
         /\ last'.buffer = last.buffer
         /\ Len(last'.calls) = 1
         /\ last'.calls[1].fn = "dequeueBuffer"
         /\ surface'.mSlots = surface.mSlots

C12_CancelRoundTrip == [][CancelRoundTrip]_vars

\* the third call is a dequeueBuffer that found the slot's buffer cached,
\* nothing queued and lock never called (it would have connected the CPU
\* api): the first call dequeued the
\* buffer and the second cancelled it
C12_Witness ==
    /\ last.op = "dequeueBuffer" /\ last.ret = NO_ERROR
    /\ Len(last.calls) = 1
    /\ hist.ops = 3
    /\ ~surface.mConnectedToCpu
    /\ held = {last.buffer}
    /\ bq.slots[DequeuedSlot(last)] = [state |-> "DEQUEUED", buffer |-> last.buffer]
    /\ \A i \in Slots : bq.slots[i].state \in {"FREE", "DEQUEUED"}
    /\ surface.mLockedBuffer = NoBuffer /\ surface.mPostedBuffer = NoBuffer

\* C13: setBuffersDimensions(w, h), called directly or through perform,
\* returns NO_ERROR and makes w and h the requested width and height when
\* both are positive or both are zero; otherwise (one of them negative, or
\* exactly one of them zero) it returns BAD_VALUE and the requested width and
\* height keep their values.
IsSetBuffersDimensions(l) ==
    \/ l.op = "setBuffersDimensions"
    \/ l.op = "perform" /\ l.operation = "NATIVE_WINDOW_SET_BUFFERS_DIMENSIONS"

DimensionsArgs(l) == IF l.op = "perform" THEN l.args ELSE <<l.arg1, l.arg2>>

DimensionsAccepted(a) == (a[1] > 0 /\ a[2] > 0) \/ (a[1] = 0 /\ a[2] = 0)

SetBuffersDimensionsContract ==
    IsSetBuffersDimensions(last') =>
       IF DimensionsAccepted(DimensionsArgs(last'))
       THEN /\ last'.ret = NO_ERROR
            /\ surface'.mReqWidth = DimensionsArgs(last')[1]
            /\ surface'.mReqHeight = DimensionsArgs(last')[2]
       ELSE /\ last'.ret = BAD_VALUE
            /\ surface'.mReqWidth = surface.mReqWidth
            /\ surface'.mReqHeight = surface.mReqHeight

C13_SetBuffersDimensions == [][SetBuffersDimensionsContract]_vars

\* a request with exactly one zero was rejected and the dimensions set
\* before are still there
C13_Witness ==
    /\ IsSetBuffersDimensions(last)
    /\ last.ret = BAD_VALUE
    /\ DimensionsArgs(last) = <<0, MaxDim>>
    /\ surface.mReqWidth = MaxDim /\ surface.mReqHeight = MaxDim

\* C14: a configuration request that returns BAD_VALUE or NAME_NOT_FOUND
\* (dimensions negative or half given, a negative format, an unknown scaling
\* mode, an unknown operation code, the combined
\* perform(NATIVE_WINDOW_SET_BUFFERS_GEOMETRY, w, h, format)) leaves every
\* field of the Surface as it was.
ConfigRequestFailed(l) ==
    /\ l.op \in {"perform", "setBuffersDimensions"}
    /\ l.ret \in {BAD_VALUE, NAME_NOT_FOUND}

FailedRequestChangesNothing == ConfigRequestFailed(last') => surface' = surface

C14_FailedRequestChangesNothing == [][FailedRequestChangesNothing]_vars

\* C15: when the wait on the fence of the buffer lock dequeued fails, lock
\* calls cancelBuffer on the queue for the slot it dequeued, returns the
\* error of the wait, locks nothing, leaves mPostedBuffer, mDirtyRegion and
\* the dirty region of every slot as they were, and neither copies into nor
\* maps the buffer's memory.
FenceWaitFailed(l) == l.op = "lock" /\ l.out.back # NoBuffer /\ ~l.out.waited

LockAfterFenceFailure ==
    FenceWaitFailed(last') =>
       /\ last'.ret = FENCE_WAIT_ERROR
       /\ last'.calls[Len(last'.calls)] =
             [NoCall EXCEPT !.fn = "cancelBuffer", !.slot = last'.out.slot]
       /\ \E k \in 1..(Len(last'.calls) - 1) :
             /\ last'.calls[k].fn = "dequeueBuffer"
             /\ last'.calls[k].slot = last'.out.slot
       /\ bq'.slots[last'.out.slot].state = "FREE"
       /\ surface.mLockedBuffer = NoBuffer
       /\ surface'.mLockedBuffer = NoBuffer
       /\ surface'.mPostedBuffer = surface.mPostedBuffer
       /\ surface'.mDirtyRegion = surface.mDirtyRegion
       /\ \A i \in Slots : surface'.mSlots[i].dirtyRegion = surface.mSlots[i].dirtyRegion
       /\ ~last'.out.blitted /\ ~last'.out.mapped
       /\ heap' = heap

C15_LockAfterFenceFailure == [][LockAfterFenceFailure]_vars

\* the fence wait failed in a lock that found a posted frame and recorded
\* dirty regions, which are still there
C15_Witness ==
    /\ FenceWaitFailed(last)
    /\ last.ret = FENCE_WAIT_ERROR
    /\ surface.mPostedBuffer # NoBuffer
    /\ surface.mDirtyRegion # {}
    /\ \E i \in Slots : surface.mSlots[i].dirtyRegion # {}
    /\ bq.slots[last.out.slot].state = "FREE"

\* C16: when the back buffer cannot be mapped, lock returns
\* INVALID_OPERATION and mLockedBuffer stays none, so that a lock called next
\* is not turned away as already locked (it goes on to the queue) and an
\* unlockAndPost called next fails with INVALID_OPERATION without queueing;
\* when it is mapped, mLockedBuffer is the buffer lock dequeued and the
\* caller gets that buffer's width, height, stride, format and address.
MapFailed(l) == l.op = "lock" /\ l.out.waited /\ ~l.out.mapped

MapSucceeded(l) == l.op = "lock" /\ l.out.waited /\ l.out.mapped

DequeuedByLock(l) ==
    {l.calls[k].slot : k \in {j \in 1..Len(l.calls) : l.calls[j].fn = "dequeueBuffer"}}

LockMapping ==
    /\ MapFailed(last') =>
         /\ last'.ret = INVALID_OPERATION
         /\ surface'.mLockedBuffer = NoBuffer
         /\ last'.out.outBuffer = NoBuffer
    /\ MapSucceeded(last') =>
         /\ last'.ret = NO_ERROR
         /\ DequeuedByLock(last') = {last'.out.slot}
         /\ surface'.mLockedBuffer = surface'.mSlots[last'.out.slot].buffer
         /\ surface'.mLockedBuffer = bq'.slots[last'.out.slot].buffer
         /\ surface'.mLockedBuffer # NoBuffer
         /\ last'.out.outBuffer = surface'.mLockedBuffer
    /\ (MapFailed(last) /\ last'.op = "lock") =>
         /\ Len(last'.calls) > 0
         /\ last'.calls[Len(last'.calls)].fn \in {"dequeueBuffer", "requestBuffer",
                                                 "cancelBuffer"}
    /\ (MapFailed(last) /\ last'.op = "unlockAndPost") =>
         /\ last'.ret = INVALID_OPERATION
         /\ last'.calls = <<>>
         /\ bq' = bq

C16_LockMapping == [][LockMapping]_vars

\* after a lock whose mapping failed, the next lock got a buffer of the
\* largest size mapped and handed out
C16_Witness ==
    /\ MapSucceeded(last)
    /\ hist.ops >= 2
    /\ ~hist.posted
    /\ \E i \in Slots : /\ bq.slots[i].state = "DEQUEUED"
                        /\ bq.slots[i].buffer # surface.mLockedBuffer
    /\ last.out.outBuffer.width = MaxDim
    /\ last.out.outBuffer = surface.mLockedBuffer

\* C17: a lock on a Surface that holds no locked buffer and is not connected
\* to the CPU api first calls connect(NATIVE_WINDOW_API_CPU) on the queue,
\* before any dequeueBuffer; when the queue refuses, lock returns the
\* queue's error, dequeues nothing and locks nothing; when it accepts, the
\* requested usage becomes software read | write (the dequeueBuffer that
\* follows asks for it) and the Surface is marked connected to the CPU.  A
\* lock on a Surface already connected to the CPU makes no connect call and
\* leaves the requested usage alone.
LockStep == last'.op = "lock" /\ surface.mLockedBuffer = NoBuffer

CallsOf(l, fn) == {k \in 1..Len(l.calls) : l.calls[k].fn = fn}

ConnectCpuCall == [NoCall EXCEPT !.fn = "connect", !.api = NATIVE_WINDOW_API_CPU]

LockConnects ==
    /\ (LockStep /\ ~surface.mConnectedToCpu) =>
         /\ CallsOf(last', "connect") = {1}
         /\ last'.calls[1] = ConnectCpuCall
         /\ IF BQConnect(bq, NATIVE_WINDOW_API_CPU).err # NO_ERROR
            THEN /\ last'.ret = BQConnect(bq, NATIVE_WINDOW_API_CPU).err
                 /\ last'.calls = <<ConnectCpuCall>>
                 /\ surface' = surface
                 /\ bq' = bq
            ELSE /\ surface'.mReqUsage = GRALLOC_USAGE_SW_RW
                 /\ surface'.mConnectedToCpu
                 /\ bq'.connectedApi = NATIVE_WINDOW_API_CPU
                 /\ CallsOf(last', "dequeueBuffer") = {2}
                 /\ last'.calls[2].usage = GRALLOC_USAGE_SW_RW
    /\ (LockStep /\ surface.mConnectedToCpu) =>
         /\ CallsOf(last', "connect") = {}
         /\ CallsOf(last', "dequeueBuffer") = {1}
         /\ surface'.mReqUsage = surface.mReqUsage
         /\ last'.calls[1].usage = surface.mReqUsage
         /\ surface'.mConnectedToCpu

C17_LockConnects == [][LockConnects]_vars

\* a lock whose connect the queue refused (another api holds it): the
\* status of the queue's connect, one call, nothing locked
C17_Witness ==
    /\ last.op = "lock"
    /\ last.calls = <<ConnectCpuCall>>
    /\ last.ret = BAD_VALUE
    /\ bq.connectedApi = NATIVE_WINDOW_API_EGL
    /\ ~surface.mConnectedToCpu
    /\ surface.mLockedBuffer = NoBuffer
    /\ surface.mReqUsage = 0

\* C18: every dequeueBuffer asks the queue for the requested width when it is
\* not zero and for the user-override width otherwise, for the height chosen
\* the same way on its own, and for the format and the usage most recently
\* set; the configuration setters (setBuffersDimensions, UserDimensions,
\* Format, Transform, Timestamp, ScalingMode, Crop, setUsage, and the
\* combined geometry request) make no call on the queue, dequeue nothing and
\* change no slot.
IsDequeue(l) == l.op = "dequeueBuffer"

IsSetter(l) == l.op \in {"perform", "setBuffersDimensions"}

DequeueAsksWhatWasSet ==
    /\ IsDequeue(last') =>
         /\ CallsOf(last', "dequeueBuffer") = {1}
         /\ last'.calls[1].w = (IF surface.mReqWidth # 0 THEN surface.mReqWidth
                                ELSE surface.mUserWidth)
         /\ last'.calls[1].h = (IF surface.mReqHeight # 0 THEN surface.mReqHeight
                                ELSE surface.mUserHeight)
         /\ last'.calls[1].format = hist.setFormat
         /\ last'.calls[1].usage = hist.setUsage
    /\ IsSetter(last') =>
         /\ last'.calls = <<>>
         /\ bq' = bq
         /\ surface'.mSlots = surface.mSlots
         /\ held' = held
         /\ heap' = heap

C18_DequeueAsksWhatWasSet == [][DequeueAsksWhatWasSet]_vars

\* a dequeueBuffer made with no requested size, a user-override size and a
\* format set: it asked for the user-override size and that format
C18_Witness ==
    /\ IsDequeue(last)
    /\ surface.mReqWidth = 0 /\ surface.mReqHeight = 0
    /\ surface.mUserWidth = 1 /\ surface.mUserHeight = 1
    /\ last.calls[1].w = 1 /\ last.calls[1].h = 1
    /\ last.calls[1].format = MaxFormat
    /\ last.ret = NO_ERROR

\* C19: after a dequeueBuffer that returned NO_ERROR with slot s, the buffer
\* handed to the caller is the one cached for s and is not empty; when the
\* queue signalled RELEASE_ALL_BUFFERS the cached buffer of every other slot
\* is empty and that of s was fetched with requestBuffer; when it signalled
\* BUFFER_NEEDS_REALLOCATION the cached buffer of s is what requestBuffer(s)
\* gives; and requestBuffer is called (once, for s) exactly when one of the
\* two was signalled or nothing was cached for s.
Dequeued(l) == l.op = "dequeueBuffer" /\ l.ret = NO_ERROR

Requested(l, slot) ==
    \E k \in CallsOf(l, "requestBuffer") :
        /\ CallsOf(l, "requestBuffer") = {k}
        /\ l.calls[k].slot = slot
        /\ k > 1

DequeueCaches ==
    Dequeued(last') =>
       /\ last'.calls[1].fn = "dequeueBuffer"
       /\ last'.buffer = surface'.mSlots[DequeuedSlot(last')].buffer
       /\ last'.buffer # NoBuffer
       /\ last'.calls[1].releaseAll =>
             /\ \A i \in Slots \ {DequeuedSlot(last')} :
                   surface'.mSlots[i].buffer = NoBuffer
             /\ Requested(last', DequeuedSlot(last'))
       /\ last'.calls[1].needsRealloc =>
             /\ Requested(last', DequeuedSlot(last'))
             /\ last'.buffer = BQRequestBuffer(bq', DequeuedSlot(last'))
       /\ (CallsOf(last', "requestBuffer") # {}) <=>
             \/ last'.calls[1].releaseAll
             \/ last'.calls[1].needsRealloc
             \/ surface.mSlots[DequeuedSlot(last')].buffer = NoBuffer
       /\ (CallsOf(last', "requestBuffer") = {}) =>
             surface'.mSlots = surface.mSlots
       /\ (CallsOf(last', "requestBuffer") # {}) =>
             Requested(last', DequeuedSlot(last'))

C19_DequeueCaches == [][DequeueCaches]_vars

\* the queue signalled RELEASE_ALL_BUFFERS while the application held the
\* buffer of the other slot: that cache entry is gone, the slot dequeued has
\* a new buffer
C19_Witness ==
    /\ Dequeued(last)
    /\ last.calls[1].releaseAll
    /\ Requested(last, DequeuedSlot(last))
    /\ \E b \in held : b # last.buffer /\ SlotsHolding(surface, b) = {}
    /\ \A i \in Slots \ {DequeuedSlot(last)} : surface.mSlots[i].buffer = NoBuffer

\* C20: after a disconnect that returned NO_ERROR every cached slot buffer is
\* empty, the requested width, height, format and usage are 0, the crop is
\* empty, the scaling mode is FREEZE and the transform is 0; a disconnect
\* called next changes none of these; and a disconnect for an api the queue
\* is not connected to returns an error status.
ConfigurationOf(s) ==
    [buffers |-> [i \in Slots |-> s.mSlots[i].buffer],
     mReqWidth |-> s.mReqWidth, mReqHeight |-> s.mReqHeight,
     mReqFormat |-> s.mReqFormat, mReqUsage |-> s.mReqUsage,
     mCrop |-> s.mCrop, mScalingMode |-> s.mScalingMode, mTransform |-> s.mTransform]

DefaultConfiguration ==
    [buffers |-> [i \in Slots |-> NoBuffer],
     mReqWidth |-> 0, mReqHeight |-> 0, mReqFormat |-> 0, mReqUsage |-> 0,
     mCrop |-> EmptyRect, mScalingMode |-> NATIVE_WINDOW_SCALING_MODE_FREEZE,
     mTransform |-> 0]

Disconnected(l) == l.op = "disconnect" /\ l.ret = NO_ERROR

DisconnectResets ==
    /\ Disconnected(last') =>
         /\ ConfigurationOf(surface') = DefaultConfiguration
         /\ bq.connectedApi = last'.api
    /\ (Disconnected(last) /\ last'.op = "disconnect") =>
         /\ ConfigurationOf(surface') = ConfigurationOf(surface)
         /\ ConfigurationOf(surface') = DefaultConfiguration
    /\ (last'.op = "disconnect" /\ bq.connectedApi # last'.api) =>
         /\ last'.ret = BAD_VALUE
         /\ last'.calls = <<[NoCall EXCEPT !.fn = "disconnect", !.api = last'.api]>>

C20_DisconnectResets == [][DisconnectResets]_vars

\* a disconnect has just succeeded on a Surface whose size and format had
\* been set: they are back at 0
C20_Witness ==
    /\ Disconnected(last)
    /\ hist.setFormat = MaxFormat
    /\ ConfigurationOf(surface) = DefaultConfiguration
    /\ bq.connectedApi = 0

\* C21: a setBufferCount the queue accepts leaves every cached slot buffer
\* of the Surface empty, so that a dequeueBuffer called next fetches its
\* buffer with requestBuffer; a setBufferCount the queue rejects returns the
\* queue's error and leaves every cached slot buffer as it was.  Either way
\* the Surface makes the one call setBufferCount(n) on the queue.
IsSetBufferCount(l) == l.op = "setBufferCount"

CachedBuffers(s) == [i \in Slots |-> s.mSlots[i].buffer]

SetBufferCountInvalidates ==
    /\ IsSetBufferCount(last') =>
         /\ last'.calls = <<[NoCall EXCEPT !.fn = "setBufferCount",
                                           !.count = last'.arg1]>>
         /\ last'.ret = BQSetBufferCount(bq, last'.arg1).err
         /\ IF last'.ret = NO_ERROR
            THEN CachedBuffers(surface') = [i \in Slots |-> NoBuffer]
            ELSE surface' = surface
    /\ (IsSetBufferCount(last) /\ last.ret = NO_ERROR /\ Dequeued(last')) =>
         Requested(last', DequeuedSlot(last'))

C21_SetBufferCountInvalidates == [][SetBufferCountInvalidates]_vars

\* an accepted setBufferCount has just emptied a cache that held a buffer
\* (dequeued and cancelled before)
C21_Witness ==
    /\ IsSetBufferCount(last)
    /\ last.ret = NO_ERROR
    /\ hist.ops = 3
    /\ CachedBuffers(surface) = [i \in Slots |-> NoBuffer]
    /\ LiveHandles(World) # {}

\* C22: the crop queueBuffer passes to the queue is the configured crop
\* intersected with (0, 0, buffer.width, buffer.height): it is empty or lies
\* within the bounds of the buffer, it is empty exactly when the configured
\* crop and the bounds share no area, and after setCrop with NULL or an
\* empty rectangle the configured crop, and with it the queued crop, is
\* empty.
QueueReachedQueue(l) == l.op = "queueBuffer" /\ CallsOf(l, "queueBuffer") = {1}

RectWithin(r, b) ==
    /\ b.left <= r.left /\ r.right <= b.right
    /\ b.top <= r.top /\ r.bottom <= b.bottom

\* the rectangles share a point of the plane
RectsOverlap(a, b) ==
    \E x \in (-1) .. (MaxDim + 1), y \in (-1) .. (MaxDim + 1) :
       /\ a.left <= x /\ x < a.right /\ a.top <= y /\ y < a.bottom
       /\ b.left <= x /\ x < b.right /\ b.top <= y /\ y < b.bottom

QueuedCrop ==
    /\ QueueReachedQueue(last') =>
         /\ RectIsEmpty(last'.calls[1].crop) <=>
               ~RectsOverlap(surface.mCrop, BufferBounds(last'.buffer))
         /\ ~RectIsEmpty(last'.calls[1].crop) =>
               /\ RectWithin(last'.calls[1].crop, BufferBounds(last'.buffer))
               /\ RectWithin(last'.calls[1].crop, surface.mCrop)
               /\ \A x \in (-1) .. (MaxDim + 1), y \in (-1) .. (MaxDim + 1) :
                     (RectsOverlap(MkRect(x, y, x + 1, y + 1), surface.mCrop)
                        /\ RectsOverlap(MkRect(x, y, x + 1, y + 1),
                                        BufferBounds(last'.buffer)))
                     => RectsOverlap(MkRect(x, y, x + 1, y + 1), last'.calls[1].crop)
         /\ RectIsEmpty(surface.mCrop) => RectIsEmpty(last'.calls[1].crop)
    /\ (last'.op = "setCrop" /\ (~last'.hasRect \/ RectIsEmpty(last'.rect))) =>
         /\ RectIsEmpty(surface'.mCrop)
         /\ last'.ret = NO_ERROR
    /\ (last'.op = "setCrop" /\ last'.hasRect /\ ~RectIsEmpty(last'.rect)) =>
         surface'.mCrop = last'.rect

C22_QueuedCrop == [][QueuedCrop]_vars

\* a buffer of the largest size was queued under a crop that reaches beyond
\* it: the queue got the part inside
C22_Witness ==
    /\ QueueReachedQueue(last)
    /\ last.ret = NO_ERROR
    /\ surface.mCrop = MkRect(1, 1, MaxDim + 1, MaxDim + 1)
    /\ last.buffer.width = MaxDim
    /\ last.calls[1].crop = MkRect(1, 1, MaxDim, MaxDim)

\* C23: after every queueBuffer that reaches the queue and after every
\* connect that returned NO_ERROR, mConsumerRunningBehind is TRUE exactly
\* when the number of pending buffers the queue reports is at least 2, and
\* mDefaultWidth, mDefaultHeight and mTransformHint are the values the queue
\* reports; the status of the operation is the queue's.
Connected(l) == l.op = "connect" /\ l.ret = NO_ERROR

ReplyDeflated ==
    (QueueReachedQueue(last') \/ Connected(last')) =>
       /\ surface'.mConsumerRunningBehind = (BQOutput(bq').numPendingBuffers >= 2)
       /\ surface'.mDefaultWidth = BQOutput(bq').width
       /\ surface'.mDefaultHeight = BQOutput(bq').height
       /\ surface'.mTransformHint = BQOutput(bq').transformHint
       /\ QueueReachedQueue(last') =>
             last'.ret = BQQueueBuffer(bq, last'.calls[1].slot).err

C23_ReplyDeflated == [][ReplyDeflated]_vars

\* C24: a query changes nothing of the Surface but mConsumerRunningBehind,
\* and nothing of the queue.  NATIVE_WINDOW_CONSUMER_RUNNING_BEHIND answers 0
\* without asking the queue while the flag is clear; while it is set it asks
\* the queue, returns the queue's status, and on NO_ERROR stores the answer
\* in the flag.  No other key changes the flag.  NATIVE_WINDOW_DEFAULT_WIDTH
\* and _HEIGHT give the user dimension when it is not 0 and otherwise the
\* default the queue last reported.
IsQuery(l) == l.op = "query"

AskedQueue(l) == CallsOf(l, "query") # {}

QueryRunningBehind ==
    IF ~surface.mConsumerRunningBehind
    THEN /\ last'.ret = NO_ERROR /\ last'.value = 0
         /\ ~AskedQueue(last')
         /\ ~surface'.mConsumerRunningBehind
    ELSE /\ AskedQueue(last')
         /\ last'.ret = NO_ERROR => surface'.mConsumerRunningBehind = (last'.value # 0)
         /\ last'.ret # NO_ERROR => surface'.mConsumerRunningBehind

QueryDefault(user, default) ==
    /\ last'.ret = NO_ERROR
    /\ user # 0 => last'.value = user
    /\ user = 0 => last'.value = default

QueryContract ==
    IsQuery(last') =>
       /\ [surface' EXCEPT !.mConsumerRunningBehind = surface.mConsumerRunningBehind]
             = surface
       /\ bq' = bq /\ held' = held /\ heap' = heap
       /\ last'.operation = "NATIVE_WINDOW_CONSUMER_RUNNING_BEHIND" => QueryRunningBehind
       /\ last'.operation # "NATIVE_WINDOW_CONSUMER_RUNNING_BEHIND" =>
             surface'.mConsumerRunningBehind = surface.mConsumerRunningBehind
       /\ last'.operation = "NATIVE_WINDOW_DEFAULT_WIDTH" =>
             QueryDefault(surface.mUserWidth, surface.mDefaultWidth)
       /\ last'.operation = "NATIVE_WINDOW_DEFAULT_HEIGHT" =>
             QueryDefault(surface.mUserHeight, surface.mDefaultHeight)

C24_QueryContract == [][QueryContract]_vars

\* C24 as stated: no query changes any field of the Surface.
QueryReadOnly == IsQuery(last') => surface' = surface

C24_AsStated == [][QueryReadOnly]_vars

\* A query found the flag set, asked the queue, which had been drained
\* below two pending buffers, and cleared the flag.
C24_Witness ==
    /\ IsQuery(last)
    /\ last.operation = "NATIVE_WINDOW_CONSUMER_RUNNING_BEHIND"
    /\ AskedQueue(last)
    /\ last.ret = NO_ERROR
    /\ last.value = 0
    /\ ~surface.mConsumerRunningBehind

\* C25: perform(operation, args) returns the status and leaves the state
\* that the method of that operation returns and leaves when called with
\* the same arguments from the same state; NATIVE_WINDOW_CONNECT and
\* NATIVE_WINDOW_DISCONNECT return NO_ERROR and change nothing; a code that
\* is none of these returns NAME_NOT_FOUND and changes nothing.
IsPerform(l) == l.op = "perform"

Ints == (-(2 ^ (IntBits - 1))) .. (2 ^ (IntBits - 1) - 1)

\* The step is what the call r would do
StepIs(r) ==
    /\ last'.ret = r.ret
    /\ last'.calls = r.w.log
    /\ surface' = r.w.s
    /\ bq' = r.w.q
    /\ heap' = r.w.heap
    /\ held' = r.w.held

StepIsNothing(ret) ==
    /\ last'.ret = ret
    /\ last'.calls = <<>>
    /\ UNCHANGED <<surface, bq, heap, held>>

\* setBuffersDimensions(w, h), and setBuffersFormat(f) if that succeeded
SetBuffersGeometry(w, wd, ht, f) ==
    IF SetBuffersDimensions(w, wd, ht).ret # NO_ERROR
    THEN SetBuffersDimensions(w, wd, ht)
    ELSE SetBuffersFormat(SetBuffersDimensions(w, wd, ht).w, f)

DirectCall(operation, a, e) ==
    CASE operation = "NATIVE_WINDOW_SET_USAGE" -> StepIs(SetUsage(World, a[1]))
      [] operation = "NATIVE_WINDOW_SET_CROP" -> StepIs(SetCrop(World, a[1], a[2]))
      [] operation = "NATIVE_WINDOW_SET_BUFFER_COUNT" ->
            \A n \in Ints : IntToSize(n) = a[1] => StepIs(SetBufferCount(World, n))
      [] operation = "NATIVE_WINDOW_SET_BUFFERS_GEOMETRY" ->
            StepIs(SetBuffersGeometry(World, a[1], a[2], a[3]))
      [] operation = "NATIVE_WINDOW_SET_BUFFERS_TRANSFORM" ->
            StepIs(SetBuffersTransform(World, a[1]))
      [] operation = "NATIVE_WINDOW_SET_BUFFERS_TIMESTAMP" ->
            StepIs(SetBuffersTimestamp(World, a[1]))
      [] operation = "NATIVE_WINDOW_SET_BUFFERS_DIMENSIONS" ->
            StepIs(SetBuffersDimensions(World, a[1], a[2]))
      [] operation = "NATIVE_WINDOW_SET_BUFFERS_USER_DIMENSIONS" ->
            StepIs(SetBuffersUserDimensions(World, a[1], a[2]))
      [] operation = "NATIVE_WINDOW_SET_BUFFERS_FORMAT" ->
            StepIs(SetBuffersFormat(World, a[1]))
      [] operation = "NATIVE_WINDOW_SET_SCALING_MODE" ->
            StepIs(SetScalingMode(World, a[1]))
      [] operation = "NATIVE_WINDOW_LOCK" -> StepIs(Lock(World, a[1], a[2], e))
      [] operation = "NATIVE_WINDOW_UNLOCK_AND_POST" -> StepIs(UnlockAndPost(World, e))
      [] operation = "NATIVE_WINDOW_API_CONNECT" -> StepIs(Connect(World, a[1]))
      [] operation = "NATIVE_WINDOW_API_DISCONNECT" -> StepIs(Disconnect(World, a[1]))
      [] operation \in {"NATIVE_WINDOW_CONNECT", "NATIVE_WINDOW_DISCONNECT"} ->
            StepIsNothing(NO_ERROR)
      [] OTHER -> StepIsNothing(NAME_NOT_FOUND)

PerformIsDirectCall ==
    IsPerform(last') => DirectCall(last'.operation, last'.args, last'.env)

C25_PerformIsDirectCall == [][PerformIsDirectCall]_vars

\* perform(NATIVE_WINDOW_LOCK) locked a buffer
C25_Witness ==
    /\ IsPerform(last)
    /\ last.operation = "NATIVE_WINDOW_LOCK"
    /\ last.ret = NO_ERROR
    /\ surface.mLockedBuffer # NoBuffer
    /\ surface.mConnectedToCpu

\* C26: when the lock behind nativeLockCanvas fails with NO_MEMORY, as it
\* does when the queue cannot allocate a buffer to dequeue, the caller gets
\* an OutOfResourcesException; when it fails with any other status the
\* caller gets an IllegalArgumentException; either way 0 is returned, the
\* Canvas object keeps the canvas it had and no reference to the Surface is
\* added.
IsNativeLockCanvas(l) == l.op = "nativeLockCanvas"

AllocationFailed(l) ==
    /\ CallsOf(l, "dequeueBuffer") # {}
    /\ l.env.pick = -1
    /\ l.env.err = NO_MEMORY

LockCanvasFailure ==
    IsNativeLockCanvas(last') =>
       /\ AllocationFailed(last') => last'.ret = NO_MEMORY
       /\ last'.ret = NO_MEMORY => last'.exception = OutOfResourcesException
       /\ last'.ret \notin {NO_ERROR, NO_MEMORY} =>
             last'.exception = IllegalArgumentException
       /\ last'.ret # NO_ERROR =>
             /\ last'.value = 0
             /\ hist'.jni = hist.jni
             /\ surface'.mLockedBuffer = surface.mLockedBuffer

C26_LockCanvasFailure == [][LockCanvasFailure]_vars

\* A canvas was locked and posted, and the next lock found the allocator
\* out of memory.
C26_Witness ==
    /\ IsNativeLockCanvas(last)
    /\ AllocationFailed(last)
    /\ last.exception = OutOfResourcesException
    /\ hist.jni.refs = 1
    /\ hist.jni.canvas = NoBuffer

\* C27: while the main loop is between its transaction handling and the
\* end of the frame, mDrawingState is the whole scene that the last finished
\* client request had left in mCurrentState when commitTransaction last ran,
\* and what was composited was read from it: never the layer list of one
\* request with the display configuration of another.
Compositing == flinger.pc \in {"handlePageFlip", "handleMessageRefresh", "postFramebuffer"}

C27_AtomicCommit ==
    Compositing =>
       /\ flinger.mDrawingState = flinger.snapshot
       /\ flinger.mDrawingState \in Scenes
       /\ flinger.pc = "postFramebuffer" => flinger.composed.state = flinger.snapshot

\* A committed transaction has been composited while a client, holding the
\* state lock, is halfway through the next one.
C27_Witness ==
    /\ flinger.pc = "postFramebuffer"
    /\ flinger.mDrawingState = State(<<1, 2>>, 1)
    /\ flinger.composed.state = flinger.mDrawingState
    /\ flinger.request = 1
    /\ flinger.mCurrentState \notin Scenes

\* C28: a client request changes mCurrentState and mTransactionFlags (and
\* the lock it holds) and nothing else of the compositor, and its flags are
\* ORed into the word; mDrawingState changes only when the main loop commits,
\* and then to mCurrentState; the other handlers of the main loop leave
\* mCurrentState alone and composite from mDrawingState; the commit leaves
\* mTransactionFlags clear.
ClientRequests == {"setClientState", "setDisplayState", "setTransactionFlags"}

ClientSide(f) ==
    [f EXCEPT !.mCurrentState = State(<<>>, 0), !.mTransactionFlags = 0,
              !.mStateLock = "none", !.request = 0, !.whole = State(<<>>, 0)]

Commits == last'.op = "handleMessageTransaction" /\ flinger.mTransactionFlags # 0

StateOwnership ==
    /\ last'.op \in ClientRequests =>
          /\ ClientSide(flinger') = ClientSide(flinger)
          /\ \E b \in FlagBits :
                flinger'.mTransactionFlags = BitOr(flinger.mTransactionFlags, b)
          /\ flinger'.mTransactionFlags \in 0 .. eTransactionMask
          /\ bq' = bq
    /\ flinger'.mDrawingState # flinger.mDrawingState =>
          /\ Commits
          /\ flinger'.mDrawingState = flinger.mCurrentState
    /\ last'.op \notin ClientRequests =>
          flinger'.mCurrentState = flinger.mCurrentState
    /\ (last'.op = "handleMessageRefresh" /\ flinger'.pc = "postFramebuffer") =>
          flinger'.composed.state = flinger.mDrawingState
    /\ Commits =>
          /\ flinger'.mTransactionFlags = 0
          /\ flinger'.mDrawingState = flinger.mCurrentState

C28_StateOwnership == [][StateOwnership]_vars

\* The second half of a client request has ORed its flag to the first's,
\* with nothing committed yet.
C28_Witness ==
    /\ last.op = "setDisplayState"
    /\ flinger.mTransactionFlags = BitOr(eTransactionNeeded, eDisplayTransactionNeeded)
    /\ flinger.mCurrentState = State(<<1, 2>>, 1)
    /\ flinger.mDrawingState = State(<<1>>, 0)

\* C29: when the iteration has neither committed a transaction nor latched
\* a buffer, handleMessageRefresh composites nothing and the iteration ends
\* without a present; otherwise it composites the drawing state over exactly
\* the damage gathered for the display and goes on to postFramebuffer, which
\* presents one frame.  Nothing else composites or presents.
Refreshes == last'.op = "handleMessageRefresh"

IdleOrComposite ==
    /\ (Refreshes /\ ~flinger.committed /\ ~flinger.latched) =>
          /\ flinger'.composed = flinger.composed
          /\ flinger'.presents = flinger.presents
          /\ flinger'.pc = "waitForEvent"
    /\ (Refreshes /\ (flinger.committed \/ flinger.latched)) =>
          /\ flinger'.composed.dirty = flinger.dirtyRegion
          /\ flinger'.composed.state = flinger.mDrawingState
          /\ flinger'.dirtyRegion = {}
          /\ flinger'.pc = "postFramebuffer"
    /\ flinger.pc = "postFramebuffer" =>
          /\ last'.op \in {"postFramebuffer"} \cup ClientRequests
             \/ flinger' = flinger
          /\ last'.op = "postFramebuffer" => flinger'.presents = flinger.presents + 1
    /\ flinger'.composed # flinger.composed => Refreshes
    /\ flinger'.presents # flinger.presents =>
          /\ last'.op = "postFramebuffer"
          /\ flinger.committed \/ flinger.latched
    /\ last'.op = "waitForEvent" => (~flinger.committed /\ ~flinger.latched)

C29_IdleOrComposite == [][IdleOrComposite]_vars

\* One frame was composited and presented, and the next iteration, with no
\* transaction and no buffer, ended idle.
C29_Witness ==
    /\ last.op = "handleMessageRefresh"
    /\ flinger.pc = "waitForEvent"
    /\ flinger.iterations = 2
    /\ flinger.presents = 1
    /\ flinger.composed.dirty # {}

\* C30: when handlePageFlip latches a queued buffer, the damage of the
\* display grows by the dirty region the producer recorded for that buffer
\* and by nothing else, so that the damage at the composite is the union of
\* the dirty regions of the buffers latched since the last one.  Stated for
\* the buffer of the producer's last unlockAndPost, latched before the
\* producer locks again: its slot still holds the dirty region of its lock.
Latches == last'.op = "handlePageFlip" /\ bq.fifo # <<>>

LatchesLastPosted ==
    /\ Latches
    /\ bq.slots[Head(bq.fifo)].buffer = hist.queuedByPost
    /\ ~hist.lockOutstanding

ProducerDirtyRegion(slot) == surface.mSlots[slot].dirtyRegion

DamageIsProducerDirty ==
    LatchesLastPosted =>
       flinger'.dirtyRegion = flinger.dirtyRegion \cup ProducerDirtyRegion(Head(bq.fifo))

C30_DamageIsProducerDirty == [][DamageIsProducerDirty]_vars

\* C31: with the compositor loop and the vsync pulse scheduled fairly, a
\* buffer the producer has queued is eventually latched by the compositor,
\* and a latched buffer eventually is free again in its queue, handed back
\* by the present of its frame, so that dequeueBuffer can give the slot out.
SlotIs(i, state) == bq.slots[i].state = state

C31_QueuedIsLatchedAndFreed ==
    \A i \in Slots :
        /\ SlotIs(i, "QUEUED") ~> (SlotIs(i, "ACQUIRED") /\ flinger.latched)
        /\ SlotIs(i, "ACQUIRED") ~> (SlotIs(i, "FREE") /\ last.op = "postFramebuffer")

\* Two frames have been presented and the buffer of the last one is free
\* again.
C31_Witness ==
    /\ flinger.presents >= 2
    /\ last.op = "postFramebuffer"
    /\ hist.queuedByPost # NoBuffer
    /\ \E i \in Slots : SlotIs(i, "FREE") /\ bq.slots[i].buffer = hist.queuedByPost

\* C32: a display that is missing or fails to composite in a frame loses
\* only its own composition pass: the other displays of the drawing state
\* are composited and presented, the failing ones are not, and the loop goes
\* on to present and back to waitForEvent; it never stops short of it.
DisplayFailureSkipsItsPass ==
    /\ (Refreshes /\ (flinger.committed \/ flinger.latched)) =>
          /\ flinger'.passes = DisplaysOf(flinger.mDrawingState) \ flinger'.failing
          /\ flinger'.pc = "postFramebuffer"
    /\ last'.op = "postFramebuffer" =>
          /\ flinger'.presented = DisplaysOf(flinger.composed.state) \ flinger.failing
          /\ flinger'.pc = "waitForEvent"
          /\ flinger'.iterations = flinger.iterations + 1

C32_DisplayFailureSkipsItsPass ==
    /\ [][DisplayFailureSkipsItsPass]_vars
    /\ (flinger.pc # "waitForEvent") ~> (flinger.pc = "waitForEvent")

\* A frame of the two-display scene was presented on the built-in display
\* alone, the external one having failed, and the loop waits again.
C32_Witness ==
    /\ last.op = "postFramebuffer"
    /\ flinger.pc = "waitForEvent"
    /\ flinger.presents >= 1
    /\ flinger.presented = {0}

\* C33: of two lock() calls by two threads with no unlockAndPost() in
\* between, however they interleave, at most one returns NO_ERROR, and the
\* queue never has more than one buffer dequeued by lock().
Succeeded == {t \in Threads : hist.threads[t].pc = "returned"
                               /\ hist.threads[t].ret = NO_ERROR}

DequeuedSlots == {i \in Slots : bq.slots[i].state = "DEQUEUED"}

C33_LocksExclude ==
    /\ Cardinality(Succeeded) <= 1
    /\ Cardinality(DequeuedSlots) <= 1

\* C34: a lock() that copies into the back buffer or maps it has first
\* waited with success on the fence its dequeueBuffer returned: whatever the
\* queue and gralloc did in the call, if the wait failed the call neither
\* copied nor mapped nor locked anything, and where there is no fence to
\* wait for (NO_FENCE) the wait succeeds at once and the call goes on.
\* LockRanIn(e): the step is a lock() that got as far as dequeueBuffer and in
\* which the queue, the fence and gralloc behaved as e says.
LockRanIn(e) ==
    /\ last'.op = "lock"
    /\ ~AlreadyLocked(surface)
    /\ BQCanDequeue(bq, e)
    /\ e.pick = last'.out.slot
    /\ LET r == Lock(World, last'.hasRect, last'.rect, e)
       IN /\ r.ret = last'.ret
          /\ r.out = last'.out
          /\ r.w.s = surface'
          /\ r.w.q = bq'
          /\ r.w.heap = heap'
          /\ r.w.log = last'.calls

TouchedBackBuffer ==
    \/ last'.out.blitted
    \/ last'.out.mapped
    \/ surface'.mLockedBuffer # surface.mLockedBuffer

WaitsBeforeTouching ==
    \A e \in DequeueEnvs :
        LockRanIn(e) =>
           /\ TouchedBackBuffer => (e.fence = "none" /\ last'.out.waited)
           /\ (e.pick # -1 /\ e.fence = "none") => last'.out.waited
           /\ (e.pick # -1 /\ e.fence = "err") =>
                  (~last'.out.waited /\ ~TouchedBackBuffer /\ heap' = heap)

C35_NoLeakedBuffer ==
    /\ \A i \in Slots :
          bq.slots[i].state = "DEQUEUED" =>
             /\ surface.mLockedBuffer # NoBuffer
             /\ bq.slots[i].buffer = surface.mLockedBuffer
    /\ Cardinality({i \in Slots : bq.slots[i].state = "DEQUEUED"}) <= 1

\* C36: the region a lock() hands to copyBlt lies within the bounds of the
\* buffer it copies into (the one just dequeued) and of the buffer it copies
\* from (the posted one).
CopybackWithinBounds ==
    (last'.op = "lock" /\ last'.out.blitted) =>
       /\ last'.out.copyback \subseteq RectPixels(BufferBounds(last'.out.back))
       /\ last'.out.copyback \subseteq RectPixels(BufferBounds(surface.mPostedBuffer))

C36_CopybackWithinBounds == [][CopybackWithinBounds]_vars

\* C37: mDirtyRegion always contains the dirty region of every slot, and a
\* step that is not a lock() on the path taken when nothing can be copied
\* back (which clears the regions) never takes a pixel out of mDirtyRegion.
SlotsDirty(s) == UNION {s.mSlots[i].dirtyRegion : i \in Slots}

FullRedrawLock == last'.op = "lock" /\ last'.out.waited /\ ~last'.out.canCopyBack

DirtyAccumulates ==
    /\ SlotsDirty(surface) \subseteq surface.mDirtyRegion
    /\ SlotsDirty(surface') \subseteq surface'.mDirtyRegion
    /\ ~FullRedrawLock => surface.mDirtyRegion \subseteq surface'.mDirtyRegion

C37_DirtyAccumulates == [][DirtyAccumulates]_vars

\* A lock that could copy back took a dirty rectangle smaller than what had
\* accumulated: the slot's region is the rectangle, mDirtyRegion has kept
\* the rest.
C37_Witness ==
    /\ last.op = "lock"
    /\ last.out.waited
    /\ last.out.canCopyBack
    /\ last.out.slot \in Slots
    /\ surface.mSlots[last.out.slot].dirtyRegion = last.out.newDirty
    /\ last.out.newDirty # {}
    /\ SlotsDirty(surface) # surface.mDirtyRegion

\* C38: a disconnect the queue rejects returns the queue's error and leaves
\* the requested size, format and usage, the crop, the scaling mode, the
\* transform and mConnectedToCpu as they were, with every cached slot buffer
\* dropped all the same; and no disconnect changes the user dimensions, the
\* timestamp, mLockedBuffer, mPostedBuffer or any dirty region.
RequestedOf(s) ==
    [mReqWidth |-> s.mReqWidth, mReqHeight |-> s.mReqHeight,
     mReqFormat |-> s.mReqFormat, mReqUsage |-> s.mReqUsage,
     mCrop |-> s.mCrop, mScalingMode |-> s.mScalingMode, mTransform |-> s.mTransform,
     mConnectedToCpu |-> s.mConnectedToCpu]

KeptByDisconnect(s) ==
    [mUserWidth |-> s.mUserWidth, mUserHeight |-> s.mUserHeight,
     mTimestamp |-> s.mTimestamp,
     mLockedBuffer |-> s.mLockedBuffer, mPostedBuffer |-> s.mPostedBuffer,
     mDirtyRegion |-> s.mDirtyRegion,
     dirtyRegions |-> [i \in Slots |-> s.mSlots[i].dirtyRegion]]

RejectedDisconnect ==
    /\ (last'.op = "disconnect" /\ last'.ret # NO_ERROR) =>
          /\ last'.ret = BQDisconnect(bq, last'.api).err
          /\ RequestedOf(surface') = RequestedOf(surface)
          /\ \A i \in Slots : surface'.mSlots[i].buffer = NoBuffer
    /\ last'.op = "disconnect" =>
          KeptByDisconnect(surface') = KeptByDisconnect(surface)

C38_RejectedDisconnect == [][RejectedDisconnect]_vars

\* The queue has rejected the disconnect of an api it is not connected to:
\* the Surface had a buffer locked, a size and a format requested and a
\* buffer cached, and has kept all but the cached buffer.
C38_Witness ==
    /\ last.op = "disconnect"
    /\ last.ret = BAD_VALUE
    /\ surface.mLockedBuffer # NoBuffer
    /\ surface.mConnectedToCpu
    /\ surface.mReqWidth = MaxDim
    /\ surface.mReqFormat = MaxFormat
    /\ \A i \in Slots : surface.mSlots[i].buffer = NoBuffer

\* C39: queueBuffer and cancelBuffer of a buffer that no slot caches return
\* BAD_VALUE, make no call to the buffer queue and leave the Surface, with
\* its default size, transform hint and running-behind flag, and the queue
\* as they were.
UnknownBufferStep ==
    /\ last'.op \in {"queueBuffer", "cancelBuffer"}
    /\ GetSlotFromBufferLocked(surface, last'.buffer) < 0

UnknownBufferRejected ==
    UnknownBufferStep =>
        /\ last'.ret = BAD_VALUE
        /\ last'.calls = <<>>
        /\ surface' = surface
        /\ bq' = bq
        /\ heap' = heap

C39_UnknownBufferRejected == [][UnknownBufferRejected]_vars

\* A buffer dequeued before the cache was dropped has been queued and
\* rejected, while another buffer, queued before it, is pending in the queue.
C39_Witness ==
    /\ last.op = "queueBuffer"
    /\ last.ret = BAD_VALUE
    /\ last.calls = <<>>
    /\ GetSlotFromBufferLocked(surface, last.buffer) < 0
    /\ bq.fifo # <<>>

\* C40: for every valid event type, the user-activity notifications of that
\* type that were forwarded have event times, as clamped to the clock, at
\* least 500 ms apart; the time recorded for the type never decreases; and
\* a notification whose clamped time is less than 500 ms after the recorded
\* one is not forwarded and leaves the recorded time as it was.
ValidEventTypes == 0 .. USER_ACTIVITY_EVENT_LAST

ForwardedApart ==
    \A i, j \in DOMAIN power.forwarded :
        (/\ i < j
         /\ power.forwarded[i].eventType \in ValidEventTypes
         /\ power.forwarded[i].eventType = power.forwarded[j].eventType) =>
            power.forwarded[j].eventTime - power.forwarded[i].eventTime
                >= MIN_TIME_BETWEEN_USERACTIVITIES

RecordedNeverDecreases ==
    \A t \in ValidEventTypes : power'.gLastEventTime[t] >= power.gLastEventTime[t]

ArrivesTooSoon ==
    /\ last'.op = "userActivity"
    /\ last'.arg2 \in ValidEventTypes
    /\ ClampToNow(last'.arg1, last'.now)
          < power.gLastEventTime[last'.arg2] + MIN_TIME_BETWEEN_USERACTIVITIES

TooSoonIsDropped ==
    ArrivesTooSoon => /\ power'.forwarded = power.forwarded
                      /\ power'.gLastEventTime = power.gLastEventTime

C40_UserActivityThrottled ==
    /\ []ForwardedApart
    /\ [][RecordedNeverDecreases /\ TooSoonIsDropped]_vars

\* Two notifications of one type have been forwarded and a third, of the
\* same type and less than 500 ms after the second, has just been dropped.
C40_Witness ==
    /\ last.op = "userActivity"
    /\ last.arg2 \in ValidEventTypes
    /\ power.gPowerManagerServiceObj
    /\ last.arg1 > power.gLastEventTime[last.arg2]
    /\ ClampToNow(last.arg1, last.now)
          < power.gLastEventTime[last.arg2] + MIN_TIME_BETWEEN_USERACTIVITIES
    /\ Len(SelectSeq(power.forwarded, LAMBDA c : c.eventType = last.arg2)) = 2

=============================================================================
